---- MODULE Spec2Model ----
(***************************************************************************)
(* Product attribute extraction pipeline (src/pipeline.py): tolerant       *)
(* parsing of the agent output, formatting of the profile over the         *)
(* attribute catalog, the per-item pipeline and the batch loop.            *)
(*                                                                         *)
(* Texts are sequences of one-character strings, so that find, slicing     *)
(* and strip work on characters as in Python.  Python values that can be   *)
(* of several types (JSON values, attribute values) are tagged records.    *)
(***************************************************************************)
EXTENDS Integers, Sequences, FiniteSets, TLC

(***************************************************************************)
(* Bounds of the model.                                                    *)
(***************************************************************************)
\* longest free-form agent text, in tokens
MaxTokens == 4
\* most keys of the "attributes" object of a dict agent result
MaxKeys == 2
\* most product subfolders of a base folder
MaxItems == 3
\* the runs of the pipelines over one session service that are followed
MaxRuns == 3
\* the milliseconds the clock may advance while they are made
MaxClock == 2

(***************************************************************************)
(* Python str operations, 0-based as in Python.                            *)
(***************************************************************************)
SetMin(S) == CHOOSE x \in S : \A y \in S : x <= y

\* sub in s
Contains(s, sub) ==
    \E i \in 0..(Len(s) - Len(sub)) : SubSeq(s, i + 1, i + Len(sub)) = sub

\* s.find(sub, start): lowest index >= start where sub occurs, else -1
Find(s, sub, start) ==
    LET hits == {i \in start..(Len(s) - Len(sub)) :
                    SubSeq(s, i + 1, i + Len(sub)) = sub}
    IN  IF hits = {} THEN -1 ELSE SetMin(hits)

\* an index of a slice, as Python normalises it: negative counts from the end
SliceIndex(i, n) ==
    IF i < 0 THEN (IF i + n < 0 THEN 0 ELSE i + n)
    ELSE (IF i > n THEN n ELSE i)

\* s[a:b]
Slice(s, a, b) ==
    LET lo == SliceIndex(a, Len(s))
        hi == SliceIndex(b, Len(s))
    IN  IF hi <= lo THEN <<>> ELSE SubSeq(s, lo + 1, hi)

Whitespace == {" ", "\n"}

RECURSIVE LStrip(_)
LStrip(s) ==
    IF s # <<>> /\ Head(s) \in Whitespace THEN LStrip(Tail(s)) ELSE s

RECURSIVE RStrip(_)
RStrip(s) ==
    IF s # <<>> /\ s[Len(s)] \in Whitespace
    THEN RStrip(SubSeq(s, 1, Len(s) - 1)) ELSE s

\* s.strip()
Strip(s) == RStrip(LStrip(s))

\* str.join of the empty string over parts
RECURSIVE Join(_)
Join(parts) == IF parts = <<>> THEN <<>> ELSE Head(parts) \o Join(Tail(parts))

(***************************************************************************)
(* JSON values as tagged records, and the texts the agent can answer with. *)
(***************************************************************************)
JNull == [t |-> "null"]
JStr(s) == [t |-> "str", v |-> s]
JNum(n) == [t |-> "num", v |-> n]
\* m: a function from the keys of the object to JSON values
JObj(m) == [t |-> "obj", m |-> m]
EmptyMap == [k \in {} |-> JNull]

IsDict(v) == v.t = "obj"
HasKey(d, k) == k \in DOMAIN d.m

\* A Python dict keeps its keys in insertion order: an object built in code
\* carries that order as o, the keys of m without repetition.
JObjOrdered(m, o) == [t |-> "obj", m |-> m, o |-> o]
\* the sequences that hold every element of K once
Orders(K) ==
    {o \in [1..Cardinality(K) -> K] :
        \A i, j \in 1..Cardinality(K) : i # j => o[i] # o[j]}
\* the keys of d as iteration meets them
KeysInOrder(d) ==
    IF "o" \in DOMAIN d THEN d.o ELSE CHOOSE o \in Orders(DOMAIN d.m) : TRUE

\* {}
DocEmptyText == <<"{", "}">>
\* 1
DocNumberText == <<"1">>
\* {"attributes":{"Color":"Black"}}
DocScalarText ==
    <<"{", "\"", "a", "t", "t", "r", "i", "b", "u", "t", "e", "s", "\"",
      ":", "{", "\"", "C", "o", "l", "o", "r", "\"", ":", "\"", "B", "l",
      "a", "c", "k", "\"", "}", "}">>
\* {"attributes":{"Color":{"value":"Black"},"Colour":"Red"}}
DocAnnotatedText ==
    <<"{", "\"", "a", "t", "t", "r", "i", "b", "u", "t", "e", "s", "\"",
      ":", "{", "\"", "C", "o", "l", "o", "r", "\"", ":", "{", "\"", "v",
      "a", "l", "u", "e", "\"", ":", "\"", "B", "l", "a", "c", "k", "\"",
      "}", ",", "\"", "C", "o", "l", "o", "u", "r", "\"", ":", "\"", "R",
      "e", "d", "\"", "}", "}">>
\* {"attributes":1}
DocBadAttrsText ==
    <<"{", "\"", "a", "t", "t", "r", "i", "b", "u", "t", "e", "s", "\"",
      ":", "1", "}">>
\* {"attributes":   (a JSON object cut off before its end)
DocTruncatedText ==
    <<"{", "\"", "a", "t", "t", "r", "i", "b", "u", "t", "e", "s", "\"", ":">>

DocEmpty == JObj(EmptyMap)
DocScalar == JObj("attributes" :> JObj("Color" :> JStr("Black")))
DocAnnotated ==
    JObj("attributes" :>
         JObj("Color" :> JObj("value" :> JStr("Black")) @@
              "Colour" :> JStr("Red")))
DocBadAttrs == JObj("attributes" :> JNum(1))
\* the answer of a stage that read the battery type off the image:
\* {"attributes":{"Battery Type":
\*     {"value":"LP-E6","source":"visual","confidence":"medium"}}}
DocVisualText ==
    <<"{", "\"", "a", "t", "t", "r", "i", "b", "u", "t", "e", "s", "\"",
      ":", "{", "\"", "B", "a", "t", "t", "e", "r", "y", " ", "T", "y", "p",
      "e", "\"", ":", "{", "\"", "v", "a", "l", "u", "e", "\"", ":", "\"",
      "L", "P", "-", "E", "6", "\"", ",", "\"", "s", "o", "u", "r", "c",
      "e", "\"", ":", "\"", "v", "i", "s", "u", "a", "l", "\"", ",", "\"",
      "c", "o", "n", "f", "i", "d", "e", "n", "c", "e", "\"", ":", "\"",
      "m", "e", "d", "i", "u", "m", "\"", "}", "}", "}">>
\* the answer of a stage that fell back on a default:
\* {"attributes":{"Battery Type":
\*     {"value":"Li-ion","source":"default","confidence":"low"}}}
DocDefaultText ==
    <<"{", "\"", "a", "t", "t", "r", "i", "b", "u", "t", "e", "s", "\"",
      ":", "{", "\"", "B", "a", "t", "t", "e", "r", "y", " ", "T", "y", "p",
      "e", "\"", ":", "{", "\"", "v", "a", "l", "u", "e", "\"", ":", "\"",
      "L", "i", "-", "i", "o", "n", "\"", ",", "\"", "s", "o", "u", "r",
      "c", "e", "\"", ":", "\"", "d", "e", "f", "a", "u", "l", "t", "\"",
      ",", "\"", "c", "o", "n", "f", "i", "d", "e", "n", "c", "e", "\"",
      ":", "\"", "l", "o", "w", "\"", "}", "}", "}">>

\* an attribute value with source and confidence
Annotated(value, source, confidence) ==
    JObj("value" :> JStr(value) @@ "source" :> JStr(source) @@
         "confidence" :> JStr(confidence))
DocVisual ==
    JObj("attributes" :>
         JObj("Battery Type" :> Annotated("LP-E6", "visual", "medium")))
DocDefault ==
    JObj("attributes" :>
         JObj("Battery Type" :> Annotated("Li-ion", "default", "low")))

IsDigits(s) == s # <<>> /\ \A i \in 1..Len(s) : s[i] = "1"

\* the number a run of the digit 1 denotes
RECURSIVE DigitsValue(_)
DigitsValue(s) ==
    IF s = <<>> THEN 0 ELSE 10 * DigitsValue(SubSeq(s, 1, Len(s) - 1)) + 1

\* json.loads(s): the decoded value, or JSONDecodeError.  Every text of the
\* model is a concatenation of the tokens below, less at most its last
\* character, or the whole answer of a stage.  Only the document tokens hold
\* quotes, braces and colons, each document is balanced but
\* DocTruncatedText, and no token closes a brace of another: such a text is
\* valid JSON exactly when, stripped of whitespace, it is one of the six
\* documents or a run of the digit 1.
JsonLoads(s) ==
    LET b == Strip(s)
    IN  IF b = DocEmptyText THEN [ok |-> TRUE, value |-> DocEmpty]
        ELSE IF b = DocScalarText THEN [ok |-> TRUE, value |-> DocScalar]
        ELSE IF b = DocAnnotatedText THEN [ok |-> TRUE, value |-> DocAnnotated]
        ELSE IF b = DocBadAttrsText THEN [ok |-> TRUE, value |-> DocBadAttrs]
        ELSE IF b = DocVisualText THEN [ok |-> TRUE, value |-> DocVisual]
        ELSE IF b = DocDefaultText THEN [ok |-> TRUE, value |-> DocDefault]
        ELSE IF IsDigits(b) THEN [ok |-> TRUE, value |-> JNum(DigitsValue(b))]
        ELSE [ok |-> FALSE, exc |-> "JSONDecodeError"]

(***************************************************************************)
(* The attribute catalog and _format_result.                               *)
(***************************************************************************)
ATTRIBUTES ==
    <<"Color", "Body Material", "Dimensions", "Weight",
      "Sensor Type", "Sensor Size", "Megapixels", "ISO Range",
      "Lens Mount", "Viewfinder Type", "Display Type", "Display Size",
      "Autofocus System", "Video Capabilities", "Connectivity Features",
      "Battery Type", "Memory Card Slot", "USB Port Type", "Hot Shoe Mount",
      "Image Stabilization",
      "Shutter Speed Range", "Continuous Shooting Speed">>

\* the outcome of a call: a returned value or a raised exception
Return(v) == [raised |-> FALSE, value |-> v]
Raise(e) == [raised |-> TRUE, exc |-> e]

\* d.get(k, default) on a JSON object
Get(d, k, default) == IF HasKey(d, k) THEN d.m[k] ELSE default

\* A Python dict built by assignments, as the sequence of its entries in
\* insertion order.  d[k] = v replaces the value of an existing key.
DictSet(d, k, v) ==
    IF \E i \in 1..Len(d) : d[i].key = k
    THEN [i \in 1..Len(d) |->
            IF d[i].key = k THEN [key |-> k, value |-> v] ELSE d[i]]
    ELSE Append(d, [key |-> k, value |-> v])

DictKeys(d) == [i \in 1..Len(d) |-> d[i].key]
DictValues(d) == [i \in 1..Len(d) |-> d[i].value]

\* the entry copied as it is, also when it is a dict
AttributeValue_EntryItself(raw_attrs, attr_name) == Get(raw_attrs, attr_name, JNull)

\* the value _format_result stores for one catalog name
AttributeValue(raw_attrs, attr_name) ==
    LET attr_value == Get(raw_attrs, attr_name, JNull)
    IN  IF IsDict(attr_value) THEN Get(attr_value, "value", JNull)
        ELSE attr_value

\* the loop over ATTRIBUTES, from its i-th name on
RECURSIVE FormatAttributesFrom(_, _, _)
FormatAttributesFrom(raw_attrs, i, attributes) ==
    IF i > Len(ATTRIBUTES) THEN attributes
    ELSE FormatAttributesFrom(raw_attrs, i + 1,
            DictSet(attributes, ATTRIBUTES[i],
                    AttributeValue(raw_attrs, ATTRIBUTES[i])))

\* the loop run over the keys of the payload instead of the catalog
RECURSIVE CopyPayloadKeys(_, _, _)
CopyPayloadKeys(raw_attrs, keys, attributes) ==
    IF keys = {} THEN attributes
    ELSE LET k == CHOOSE x \in keys : TRUE
         IN  CopyPayloadKeys(raw_attrs, keys \ {k},
                             DictSet(attributes, k,
                                     AttributeValue(raw_attrs, k)))

FormatAttributes_PayloadKeys(raw_attrs) ==
    CopyPayloadKeys(raw_attrs, DOMAIN raw_attrs.m, <<>>)

\* the loop run over the given names
RECURSIVE FormatNames(_, _, _)
FormatNames(raw_attrs, names, attributes) ==
    IF names = <<>> THEN attributes
    ELSE FormatNames(raw_attrs, Tail(names),
                     DictSet(attributes, Head(names),
                             AttributeValue(raw_attrs, Head(names))))

\* the names the payload holds first, in the order of the payload, then the
\* names it lacks
FormatAttributes_InPayloadOrder(raw_attrs) ==
    LET present == SelectSeq(KeysInOrder(raw_attrs),
                     LAMBDA k : \E i \in 1..Len(ATTRIBUTES) : ATTRIBUTES[i] = k)
        missing == SelectSeq(ATTRIBUTES, LAMBDA k : ~HasKey(raw_attrs, k))
    IN  FormatNames(raw_attrs, present \o missing, <<>>)

FormatAttributes(raw_attrs) == FormatAttributesFrom(raw_attrs, 1, <<>>)

\* sum(1 for v in attributes.values() if v is not None and v != "null")
Filled(attributes) ==
    Cardinality({i \in 1..Len(attributes) :
                    /\ attributes[i].value # JNull
                    /\ attributes[i].value # JStr("null")})

\* f"{(filled / len(ATTRIBUTES) * 100):.1f}%", in tenths of a percent
FillRate(filled) ==
    (filled * 2000 + Len(ATTRIBUTES)) \div (2 * Len(ATTRIBUTES))

\* _format_result: .get on a value that is no dict raises AttributeError
FormatResult(result_data, product_name, image_count, image_paths) ==
    IF ~IsDict(result_data) THEN Raise("AttributeError")
    ELSE LET raw_attrs == Get(result_data, "attributes", JObj(EmptyMap))
         IN  IF ~IsDict(raw_attrs) THEN Raise("AttributeError")
             ELSE LET attributes == FormatAttributes(raw_attrs)
                      filled == Filled(attributes)
                  IN  Return([product_name |-> product_name,
                              image_count |-> image_count,
                              image_paths |-> image_paths,
                              attributes |-> attributes,
                              product_description |->
                                  Get(result_data, "product_description",
                                      JStr("")),
                              fill_rate |-> FillRate(filled),
                              filled_attributes |-> filled,
                              total_attributes |-> Len(ATTRIBUTES),
                              status |-> "success"])

(***************************************************************************)
(* Agent results and _parse_agent_output.                                  *)
(*   [kind |-> "content", parts]  a Content with its parts                 *)
(*   [kind |-> "event", content]  an Event wrapping a Content, or none     *)
(*   [kind |-> "dict", data]      a dict                                   *)
(*   [kind |-> "other"]           None or any other object                 *)
(* A part is [text |-> chars]; a part without text (inline image data) or  *)
(* with empty text has text = <<>>, which "and p.text" rejects alike.      *)
(***************************************************************************)
\* The grave accent character (U+0060), which a TLA+ string cannot hold.
Backtick == "GRAVE"
\* the code block marker, three grave accents, and the marker tagged json
Fence == <<Backtick, Backtick, Backtick>>
FenceJson == <<Backtick, Backtick, Backtick, "j", "s", "o", "n">>

NoContent == [kind |-> "none"]
TextPart(chars) == [text |-> chars]
BlobPart == [text |-> <<>>]
Content(parts) == [kind |-> "content", parts |-> parts]
Event(content) == [kind |-> "event", content |-> content]

\* [p.text for p in parts if hasattr(p, text) and p.text]
TextParts(parts) == SelectSeq([i \in 1..Len(parts) |-> parts[i].text],
                              LAMBDA x : x # <<>>)

\* raw_text after lines 225-236; <<>> stands for None (if raw_text: rejects
\* both, and joined non-empty parts are never empty)
RawText(agent_result) ==
    IF agent_result.kind = "content" /\ agent_result.parts # <<>>
    THEN Join(TextParts(agent_result.parts))
    ELSE IF agent_result.kind = "event" /\ agent_result.content # NoContent
    THEN Join(TextParts(agent_result.content.parts))
    ELSE <<>>

\* the dict branch is taken when the two branches before it are not
IsDictResult(agent_result) == agent_result.kind = "dict"

\* the tagged marker skipped by the length of the untagged one
StripCodeBlock_TagKept(raw_text) ==
    IF Contains(raw_text, Fence)
    THEN LET json_start == Find(raw_text, Fence, 0) + 3
             json_end == Find(raw_text, Fence, json_start)
         IN  Strip(Slice(raw_text, json_start, json_end))
    ELSE raw_text

\* lines 243-250: cut the text down to the content of a code block
StripCodeBlock(raw_text) ==
    IF Contains(raw_text, FenceJson)
    THEN LET json_start == Find(raw_text, FenceJson, 0) + 7
             json_end == Find(raw_text, Fence, json_start)
         IN  Strip(Slice(raw_text, json_start, json_end))
    ELSE IF Contains(raw_text, Fence)
    THEN LET json_start == Find(raw_text, Fence, 0) + 3
             json_end == Find(raw_text, Fence, json_start)
         IN  Strip(Slice(raw_text, json_start, json_end))
    ELSE raw_text

\* the fallback reported as a failure of the item
FallbackProfile_Failed(product_name, image_count, image_paths) ==
    [product_name |-> product_name,
     image_count |-> image_count,
     image_paths |-> image_paths,
     attributes |-> <<>>,
     product_description |-> JStr(""),
     status |-> "failed",
     error |-> "Could not parse agent output"]

\* lines 259-267
FallbackProfile(product_name, image_count, image_paths) ==
    [product_name |-> product_name,
     image_count |-> image_count,
     image_paths |-> image_paths,
     attributes |-> <<>>,
     product_description |-> JStr(""),
     status |-> "partial",
     error |-> "Could not parse agent output"]

\* the exception of the parse reported as a failure of the item
ParsingErrorProfile_Failed(exc, product_name, image_count, image_paths) ==
    [product_name |-> product_name,
     image_count |-> image_count,
     image_paths |-> image_paths,
     attributes |-> <<>>,
     error |-> "Parsing error: " \o exc,
     status |-> "failed"]

\* lines 271-278
ParsingErrorProfile(exc, product_name, image_count, image_paths) ==
    [product_name |-> product_name,
     image_count |-> image_count,
     image_paths |-> image_paths,
     attributes |-> <<>>,
     error |-> "Parsing error: " \o exc,
     status |-> "partial"]

\* lines 252-256: json.loads and _format_result inside the inner try, which
\* catches json.JSONDecodeError only
DecodeAndFormat(raw_text, product_name, image_count, image_paths) ==
    LET decoded == JsonLoads(raw_text)
    IN  IF decoded.ok
        THEN FormatResult(decoded.value, product_name, image_count,
                          image_paths)
        ELSE Return(FallbackProfile(product_name, image_count, image_paths))

\* the body of the outer try, lines 224-267
ParseBody(agent_result, product_name, image_count, image_paths) ==
    LET raw_text == RawText(agent_result)
    IN  IF raw_text = <<>> /\ IsDictResult(agent_result)
        THEN FormatResult(agent_result.data, product_name, image_count,
                          image_paths)
        ELSE IF raw_text # <<>>
        THEN DecodeAndFormat(StripCodeBlock(raw_text), product_name,
                             image_count, image_paths)
        ELSE Return(FallbackProfile(product_name, image_count, image_paths))

\* the body without the outer except clause
ParseAgentOutput_NoCatch(result, product_name, image_count, image_paths) ==
    ParseBody(result, product_name, image_count, image_paths)

\* _parse_agent_output: except Exception turns every exception of the body
\* into a profile
ParseAgentOutput(agent_result, product_name, image_count, image_paths) ==
    LET body == ParseBody(agent_result, product_name, image_count,
                          image_paths)
    IN  IF body.raised
        THEN Return(ParsingErrorProfile(body.exc, product_name, image_count,
                                        image_paths))
        ELSE body

(***************************************************************************)
(* State.                                                                  *)
(***************************************************************************)
VARIABLES
    \* a call of _parse_agent_output on its own
    tokens,         \* how the text of the agent result is made up
    agent_result,   \* the argument of the call
    ppc,            \* "ready", then "returned" or "raised"
    parse_out,      \* the outcome of the call
    \* the file system
    base_folder,    \* [exists, entries]: the base folder and its listing
    \* process_batch / process_batch_async
    pc,             \* the statement the batch is at
    product_folders,\* the listing entries that are directories
    idx,            \* enumerate index of the loop, from 1
    results,        \* the results list
    batch_out,      \* the outcome of process_batch once it ended
    \* the running call of extract_product_attributes
    frame,          \* its locals
    item_out,       \* its outcome once it ended
    \* observation
    calls,          \* per item, the collaborator calls and parses made
    \* BatchProcessor and the download buttons of the app
    profiles,       \* the results list handed to the exports and the report
    report,         \* the outcome of generate_summary_report
    csv_file,       \* the file export_results_to_csv wrote
    json_file,      \* the file export_results_to_json wrote
    app_csv,        \* the CSV the app offers for download
    \* ProductExtractionPipeline of src/code/main.py
    session,        \* the state of the session of the running call
    enrichment_history, \* self.enrichment_history
    pipeline_report,\* the outcome of get_pipeline_report
    \* the runner the pipeline of src/pipeline.py keeps
    clock,          \* time.time() in milliseconds
    sessions,       \* the sessions of the runner, by session id
    runs            \* per call of extract_product_attributes, its session

parse_vars == <<tokens, agent_result, ppc, parse_out>>
batch_vars == <<base_folder, pc, product_folders, idx, results, batch_out,
                frame, item_out, calls>>
export_vars == <<profiles, report, csv_file, json_file, app_csv>>
main_vars == <<session, enrichment_history, pipeline_report>>
runner_vars == <<clock, sessions, runs>>
vars == <<tokens, agent_result, ppc, parse_out, base_folder, pc,
          product_folders, idx, results, batch_out, frame, item_out, calls,
          profiles, report, csv_file, json_file, app_csv,
          session, enrichment_history, pipeline_report,
          clock, sessions, runs>>

\* an export or a report that was not asked for yet
NotDone == [done |-> FALSE]
Done(v) == [done |-> TRUE, value |-> v]

\* no export or report under way
ExportIdle ==
    /\ profiles = <<>>
    /\ report = NotDone
    /\ csv_file = NotDone
    /\ json_file = NotDone
    /\ app_csv = NotDone

\* no call of the pipeline of src/code/main.py made yet
MainIdle ==
    /\ session = <<>>
    /\ enrichment_history = <<>>
    /\ pipeline_report = NotDone

\* a runner without sessions
RunnerIdle ==
    /\ clock = 0
    /\ sessions = <<>>
    /\ runs = <<>>

(***************************************************************************)
(* The texts an agent answers with, made of tokens.                        *)
(***************************************************************************)
TokenText(tok) ==
    CASE tok = "F" -> Fence                 \* code block marker
      [] tok = "FJ" -> FenceJson            \* code block marker tagged json
      [] tok = "B" -> <<Backtick>>          \* a single grave accent
      [] tok = "X" -> <<"x">>               \* a word of prose
      [] tok = "S" -> <<"\n">>              \* a line break
      [] tok = "E" -> DocEmptyText
      [] tok = "N" -> DocNumberText
      [] tok = "SC" -> DocScalarText
      [] tok = "AN" -> DocAnnotatedText
      [] tok = "BA" -> DocBadAttrsText
      [] tok = "T" -> DocTruncatedText

RECURSIVE Flatten(_)
Flatten(toks) ==
    IF toks = <<>> THEN <<>> ELSE TokenText(Head(toks)) \o Flatten(Tail(toks))

FreeTokens == {"F", "FJ", "B", "X", "S", "E", "N", "T"}
DocTokens == {"E", "N", "SC", "AN", "BA", "T"}
ObjectTokens == {"E", "SC", "AN", "BA"}
OpenTokens == {"F", "FJ"}
ProseTokens == {"X", "S"}
\* prose before the first block, between two blocks and after the last
ProseBefore == {<<>>, <<"X", "S">>}
ProseBetween == {<<"S">>, <<"S", "X", "S">>}
ProseAfter == {<<>>, <<"S", "X">>}

\* every text of at most MaxTokens tokens
FreeTexts == UNION {[1..n -> FreeTokens] : n \in 0..MaxTokens}

\* a closed code block on lines of its own
Block(open, doc) == <<open, "S", doc, "S", "F">>

\* prose, a code block, prose
OneBlockTexts ==
    {pre \o Block(o, d) \o post :
        pre \in ProseBefore, post \in ProseAfter,
        o \in OpenTokens, d \in DocTokens}

\* prose, a code block, prose, a second code block, prose
TwoBlockTexts ==
    {pre \o Block(o1, d1) \o mid \o Block(o2, d2) \o post :
        pre \in ProseBefore, mid \in ProseBetween, post \in ProseAfter,
        o1 \in OpenTokens, o2 \in OpenTokens,
        d1 \in DocTokens, d2 \in DocTokens}

Texts == FreeTexts \cup OneBlockTexts \cup TwoBlockTexts

\* the agent results that carry the text of toks
TextResults(toks) ==
    LET text == Flatten(toks)
        whole == Content(<<TextPart(text)>>)
    IN  {whole, Event(whole), Content(<<BlobPart, TextPart(text)>>)}
        \cup (IF Len(toks) < 2 THEN {}
              ELSE {Content(<<TextPart(TokenText(Head(toks))),
                              TextPart(Flatten(Tail(toks)))>>)})

\* the dict results
KeyPool == {"Color", "Weight", "Battery Type", "Colour", "Price"}
AttrValues ==
    {JNull, JStr("null"), JStr("v"), JNum(1),
     JObj("value" :> JStr("v")), JObj("value" :> JNull),
     JObj("source" :> JStr("image"))}
AttrMaps ==
    UNION {[K -> AttrValues] :
             K \in {K \in SUBSET KeyPool : Cardinality(K) <= MaxKeys}}
DictPayloads ==
    {JObj(EmptyMap), JObj("attributes" :> JNull),
     JObj("attributes" :> JNum(1)),
     JObj("product_description" :> JStr("A camera"))}
    \cup {JObj("attributes" :> JObj(m)) : m \in AttrMaps}
    \cup {JObj("attributes" :> JObj(m) @@
                "product_description" :> JStr("A camera")) : m \in AttrMaps}

\* the dict results whose attributes object was built in code, with its keys
\* in every insertion order
OrderedValues == {JStr("v"), JObj("value" :> JStr("w"))}
OrderedAttrs ==
    UNION {UNION {{JObjOrdered(m, o) : o \in Orders(K)} :
                    m \in [K -> OrderedValues]} :
             K \in {K \in SUBSET KeyPool : Cardinality(K) <= MaxKeys}}
OrderedPayloads == {JObj("attributes" :> a) : a \in OrderedAttrs}

OtherResults ==
    {[kind |-> "other"], Content(<<>>), Event(NoContent),
     Event(Content(<<>>))}

\* the arguments of the call under check
ParseName == "CamX"
ParseImages == <<"products/CamX/a.jpg">>

\* the batch at rest, while a call of _parse_agent_output is checked alone
BatchIdle ==
    /\ base_folder = [exists |-> TRUE, entries |-> <<>>]
    /\ pc = "idle"
    /\ product_folders = <<>>
    /\ idx = 0
    /\ results = <<>>
    /\ batch_out = Return("none")
    /\ frame = [product_name |-> "none"]
    /\ item_out = Return("none")
    /\ calls = <<>>

InitParse ==
    /\ BatchIdle
    /\ ExportIdle
    /\ MainIdle
    /\ RunnerIdle
    /\ tokens \in Texts
    /\ agent_result \in TextResults(tokens)
    /\ ppc = "ready"
    /\ parse_out = Return("none")

InitParseDict ==
    /\ BatchIdle
    /\ ExportIdle
    /\ MainIdle
    /\ RunnerIdle
    /\ tokens = <<>>
    /\ agent_result \in
          {[kind |-> "dict", data |-> d] :
              d \in DictPayloads \cup OrderedPayloads}
          \cup OtherResults
    /\ ppc = "ready"
    /\ parse_out = Return("none")

\* the call of _parse_agent_output
CallParse ==
    /\ ppc = "ready"
    /\ parse_out' = ParseAgentOutput(agent_result, ParseName,
                                     Len(ParseImages), ParseImages)
    /\ ppc' = IF parse_out'.raised THEN "raised" ELSE "returned"
    /\ UNCHANGED <<tokens, agent_result>>
    /\ UNCHANGED batch_vars
    /\ UNCHANGED export_vars
    /\ UNCHANGED main_vars
    /\ UNCHANGED runner_vars

NextParse == CallParse

SpecParse == (InitParse \/ InitParseDict) /\ [][NextParse]_vars

(***************************************************************************)
(* The file system and the collaborators, as the batch meets them.         *)
(* An entry of the base folder is                                          *)
(*   [name, is_dir, listable, files, readable, fail_stage, fail_msg,       *)
(*    answers]                                                             *)
(* is_dir: a directory; listable: os.listdir of it succeeds; files: its    *)
(* listing; readable: its first image can be read; fail_stage: the stage   *)
(* whose collaborator call raises fail_msg, 0 for none; answers: the       *)
(* events each stage yields.                                               *)
(***************************************************************************)
\* the sub-agents of the sequential agent: image analysis, search enhancement
NumStages == 2

BasePath == "products"
\* os.path.join
PathJoin(a, b) == a \o "/" \o b

File(name, suffix) == [name |-> name, suffix |-> suffix]
FileName(f) == f.name \o f.suffix
\* the order of the file names of the model as strings
NameRank(name) ==
    CASE name = "a" -> 1
      [] name = "b" -> 2
      [] name = "notes" -> 3
\* str.lower on the suffixes of the model
Lower(suffix) == IF suffix = ".JPG" THEN ".jpg" ELSE suffix

NoFiles == <<>>
TextOnly == <<File("notes", ".txt")>>
Photos == <<File("b", ".JPG"), File("notes", ".txt"), File("a", ".png")>>

\* str(e) of the OSError of a folder or file that cannot be read
PermissionDenied(path) == "[Errno 13] Permission denied: " \o path
NotFound(path) == "[Errno 2] No such file or directory: " \o path

Yields(chars) == <<Event(Content(<<TextPart(chars)>>))>>
YieldsNoContent == <<Event(NoContent)>>
YieldsNothing == <<>>

Entry(is_dir, listable, files, readable, fail_stage, fail_msg, answers) ==
    [is_dir |-> is_dir, listable |-> listable, files |-> files,
     readable |-> readable, fail_stage |-> fail_stage,
     fail_msg |-> fail_msg, answers |-> answers]

Answering(answers) == Entry(TRUE, TRUE, Photos, TRUE, 0, "", answers)

Scenarios ==
    {Entry(FALSE, FALSE, NoFiles, FALSE, 0, "", <<>>),     \* a plain file
     Entry(TRUE, FALSE, NoFiles, FALSE, 0, "", <<>>),      \* unreadable folder
     Entry(TRUE, TRUE, NoFiles, FALSE, 0, "", <<>>),
     Entry(TRUE, TRUE, TextOnly, FALSE, 0, "", <<>>),
     Entry(TRUE, TRUE, Photos, FALSE, 0, "", <<>>),        \* unreadable image
     Entry(TRUE, TRUE, Photos, TRUE, 1, "timeout", <<>>),
     Entry(TRUE, TRUE, Photos, TRUE, 2, "503 backend error",
           <<Yields(DocEmptyText), YieldsNothing>>),
     Answering(<<Yields(DocEmptyText), Yields(DocScalarText)>>),
     Answering(<<Yields(DocVisualText), Yields(DocDefaultText)>>),
     Answering(<<Yields(DocEmptyText), Yields(<<"x">>)>>),
     Answering(<<Yields(DocEmptyText), Yields(DocNumberText)>>),
     Answering(<<Yields(DocScalarText), Yields(DocBadAttrsText)>>),
     Answering(<<Yields(DocEmptyText), YieldsNoContent>>),
     Answering(<<YieldsNothing, YieldsNothing>>)}

EntryName(i) == "Cam" \o ToString(i)
Named(scn, i) ==
    [name |-> EntryName(i), is_dir |-> scn.is_dir, listable |-> scn.listable,
     files |-> scn.files, readable |-> scn.readable,
     fail_stage |-> scn.fail_stage, fail_msg |-> scn.fail_msg,
     answers |-> scn.answers]

\* the listing of a base folder whose i-th entry is as scns[i]
Listing(scns) == [i \in 1..Len(scns) |-> Named(scns[i], i)]

(***************************************************************************)
(* extract_product_attributes and process_batch_async.                     *)
(***************************************************************************)
image_extensions == {".jpg", ".jpeg", ".png", ".gif", ".webp"}

\* sorted(), on files of one folder
RECURSIVE InsertByName(_, _)
InsertByName(f, sorted) ==
    IF sorted = <<>> THEN <<f>>
    ELSE IF NameRank(f.name) <= NameRank(Head(sorted).name)
    THEN <<f>> \o sorted
    ELSE <<Head(sorted)>> \o InsertByName(f, Tail(sorted))

RECURSIVE SortByName(_)
SortByName(fs) ==
    IF fs = <<>> THEN <<>> ELSE InsertByName(Head(fs), SortByName(Tail(fs)))

\* the listing taken without the check of the suffix
FindProductImages_AnyFile(product_folder, listing) ==
    LET ordered == SortByName(listing)
    IN  [i \in 1..Len(ordered) |-> PathJoin(product_folder,
                                            FileName(ordered[i]))]

\* find_product_images on a folder with the given listing
FindProductImages(product_folder, listing) ==
    LET images == SelectSeq(listing,
                    LAMBDA f : Lower(f.suffix) \in image_extensions)
        ordered == SortByName(images)
    IN  [i \in 1..Len(ordered) |-> PathJoin(product_folder,
                                            FileName(ordered[i]))]

\* lines 117-121
NoImagesProfile(product_name, product_folder) ==
    [product_name |-> product_name,
     error |-> "No images found in " \o product_folder,
     status |-> "failed"]

\* the failure reported without the message of the exception
FailedProfile_NoMessage(product_name, exc) ==
    [product_name |-> product_name,
     error |-> "Pipeline error",
     status |-> "failed"]

\* lines 209-213
FailedProfile(product_name, exc) ==
    [product_name |-> product_name,
     error |-> exc,
     status |-> "failed"]

\* lines 188-195: the content of the last event that has one, else the last
\* event, else None
RECURSIVE LastContent(_)
LastContent(events) ==
    IF events = <<>> THEN [kind |-> "other"]
    ELSE IF events[Len(events)].content # NoContent
    THEN events[Len(events)].content
    ELSE LastContent(SubSeq(events, 1, Len(events) - 1))

SelectResult(events) ==
    LET result == LastContent(events)
    IN  IF result = [kind |-> "other"] /\ events # <<>>
        THEN events[Len(events)]
        ELSE result

\* only the results of the items that did not fail are kept
AppendResult_SkipsFailed(rs, out, product_name) ==
    IF out.raised \/ out.value.status = "failed"
    THEN rs
    ELSE Append(rs, out.value)

\* lines 335-344: the result of the item, or a failure record for the
\* exception it raised
AppendResult(rs, out, product_name) ==
    IF out.raised
    THEN Append(rs, [product_name |-> product_name,
                     error |-> out.exc,
                     status |-> "failed"])
    ELSE Append(rs, out.value)

NoCalls == [reads |-> 0, stages |-> 0, parses |-> 0]
entry == product_folders[idx]

\* lines 324-329: the listing of the base folder, outside any try
ListFolders ==
    /\ pc = "start"
    /\ IF base_folder.exists
       THEN /\ product_folders' =
                  SelectSeq(base_folder.entries, LAMBDA e : e.is_dir)
            /\ idx' = 1
            /\ pc' = "loop"
            /\ UNCHANGED batch_out
       ELSE /\ batch_out' = Raise(NotFound(BasePath))
            /\ pc' = "raised"
            /\ UNCHANGED <<product_folders, idx>>
    /\ UNCHANGED <<base_folder, results, frame, item_out, calls>>
    /\ UNCHANGED parse_vars
    /\ UNCHANGED export_vars
    /\ UNCHANGED main_vars
    /\ UNCHANGED runner_vars

\* lines 331-336 and 108-112: the loop enters extract_product_attributes
BeginItem ==
    /\ pc = "loop"
    /\ idx <= Len(product_folders)
    /\ frame' = [product_name |-> entry.name,
                 product_folder |-> PathJoin(BasePath, entry.name),
                 images |-> <<>>,
                 events |-> <<>>,
                 stage |-> 0,
                 exc |-> ""]
    /\ calls' = Append(calls, NoCalls)
    /\ pc' = "find_images"
    /\ UNCHANGED <<base_folder, product_folders, idx, results, batch_out,
                   item_out>>
    /\ UNCHANGED parse_vars
    /\ UNCHANGED export_vars
    /\ UNCHANGED main_vars
    /\ UNCHANGED runner_vars

\* lines 113-123
FindImages ==
    /\ pc = "find_images"
    /\ IF ~entry.listable
       THEN /\ frame' = [frame EXCEPT !.exc =
                  PermissionDenied(frame.product_folder)]
            /\ pc' = "except"
            /\ UNCHANGED item_out
       ELSE LET images == FindProductImages(frame.product_folder,
                                            entry.files)
            IN  IF images = <<>>
                THEN /\ item_out' = Return(NoImagesProfile(
                            frame.product_name, frame.product_folder))
                     /\ pc' = "item_return"
                     /\ UNCHANGED frame
                ELSE /\ frame' = [frame EXCEPT !.images = images]
                     /\ pc' = "prepare"
                     /\ UNCHANGED item_out
    /\ UNCHANGED <<base_folder, product_folders, idx, results, batch_out,
                   calls>>
    /\ UNCHANGED parse_vars
    /\ UNCHANGED export_vars
    /\ UNCHANGED main_vars
    /\ UNCHANGED runner_vars

\* lines 125-170: the first image is read and the message built
PrepareImage ==
    /\ pc = "prepare"
    /\ calls' = [calls EXCEPT ![idx].reads = @ + 1]
    /\ IF entry.readable
       THEN /\ frame' = [frame EXCEPT !.stage = 1]
            /\ pc' = "run"
       ELSE /\ frame' = [frame EXCEPT !.exc =
                  PermissionDenied(frame.images[1])]
            /\ pc' = "except"
    /\ UNCHANGED <<base_folder, product_folders, idx, results, batch_out,
                   item_out>>
    /\ UNCHANGED parse_vars
    /\ UNCHANGED export_vars
    /\ UNCHANGED main_vars
    /\ UNCHANGED runner_vars

\* lines 174-185: the runner runs the next stage and its events are collected
RunStage ==
    /\ pc = "run"
    /\ frame.stage <= NumStages
    /\ calls' = [calls EXCEPT ![idx].stages = @ + 1]
    /\ IF entry.fail_stage = frame.stage
       THEN /\ frame' = [frame EXCEPT !.exc = entry.fail_msg]
            /\ pc' = "except"
       ELSE /\ frame' = [frame EXCEPT
                           !.events = @ \o entry.answers[frame.stage],
                           !.stage = @ + 1]
            /\ pc' = "run"
    /\ UNCHANGED <<base_folder, product_folders, idx, results, batch_out,
                   item_out>>
    /\ UNCHANGED parse_vars
    /\ UNCHANGED export_vars
    /\ UNCHANGED main_vars
    /\ UNCHANGED runner_vars

\* lines 187-205: the final result is picked and parsed
ParseResult ==
    /\ pc = "run"
    /\ frame.stage > NumStages
    /\ calls' = [calls EXCEPT ![idx].parses = @ + 1]
    /\ LET out == ParseAgentOutput(SelectResult(frame.events),
                                   frame.product_name, Len(frame.images),
                                   frame.images)
       IN  IF out.raised
           THEN /\ frame' = [frame EXCEPT !.exc = out.exc]
                /\ pc' = "except"
                /\ UNCHANGED item_out
           ELSE /\ item_out' = out
                /\ pc' = "item_return"
                /\ UNCHANGED frame
    /\ UNCHANGED <<base_folder, product_folders, idx, results, batch_out>>
    /\ UNCHANGED parse_vars
    /\ UNCHANGED export_vars
    /\ UNCHANGED main_vars
    /\ UNCHANGED runner_vars

\* lines 207-213: except Exception
HandleException ==
    /\ pc = "except"
    /\ item_out' = Return(FailedProfile(frame.product_name, frame.exc))
    /\ pc' = "item_return"
    /\ UNCHANGED <<base_folder, product_folders, idx, results, batch_out,
                   frame, calls>>
    /\ UNCHANGED parse_vars
    /\ UNCHANGED export_vars
    /\ UNCHANGED main_vars
    /\ UNCHANGED runner_vars

\* lines 337-344: the result joins the list and the loop goes on
EndItem ==
    /\ pc = "item_return"
    /\ results' = AppendResult(results, item_out, entry.name)
    /\ idx' = idx + 1
    /\ pc' = "loop"
    /\ UNCHANGED <<base_folder, product_folders, batch_out, frame, item_out,
                   calls>>
    /\ UNCHANGED parse_vars
    /\ UNCHANGED export_vars
    /\ UNCHANGED main_vars
    /\ UNCHANGED runner_vars

\* lines 346-357: the list is returned
Finish ==
    /\ pc = "loop"
    /\ idx > Len(product_folders)
    /\ batch_out' = Return(results)
    /\ pc' = "done"
    /\ UNCHANGED <<base_folder, product_folders, idx, results, frame,
                   item_out, calls>>
    /\ UNCHANGED parse_vars
    /\ UNCHANGED export_vars
    /\ UNCHANGED main_vars
    /\ UNCHANGED runner_vars

Init ==
    /\ tokens = <<>>
    /\ agent_result = [kind |-> "other"]
    /\ ppc = "idle"
    /\ parse_out = Return("none")
    /\ \/ base_folder = [exists |-> FALSE, entries |-> <<>>]
       \/ \E n \in 0..MaxItems :
             \E scns \in [1..n -> Scenarios] :
                 base_folder = [exists |-> TRUE, entries |-> Listing(scns)]
    /\ pc = "start"
    /\ product_folders = <<>>
    /\ idx = 0
    /\ results = <<>>
    /\ batch_out = Return("none")
    /\ frame = [product_name |-> "none"]
    /\ item_out = Return("none")
    /\ calls = <<>>
    /\ ExportIdle
    /\ MainIdle
    /\ RunnerIdle

Next ==
    \/ ListFolders
    \/ BeginItem
    \/ FindImages
    \/ PrepareImage
    \/ RunStage
    \/ ParseResult
    \/ HandleException
    \/ EndItem
    \/ Finish

Spec == Init /\ [][Next]_vars

(***************************************************************************)
(* BatchProcessor (src/code/batch_processor.py): the summary report and    *)
(* the exports of a results list.  The methods take the list as argument;  *)
(* the lists of the model hold profiles the pipeline returns.              *)
(***************************************************************************)
\* the agent results behind the profiles: an empty payload, scalar values
\* (one the empty string, one the word null), values with source and
\* confidence and a number, and prose that does not decode
EmptyPayload == [kind |-> "dict", data |-> JObj(EmptyMap)]
ScalarPayload ==
    [kind |-> "dict",
     data |-> JObj("attributes" :>
                JObjOrdered("Color" :> JStr("Black") @@ "Weight" :> JStr("")
                            @@ "Dimensions" :> JStr("null"),
                            <<"Color", "Weight", "Dimensions">>))]
AnnotatedPayload ==
    [kind |-> "dict",
     data |-> JObj("attributes" :>
                JObjOrdered("Color" :> Annotated("Red", "visual", "high")
                            @@ "Megapixels" :> JNum(0),
                            <<"Megapixels", "Color">>)
              @@ "product_description" :> JStr("A camera"))]
ProsePayload == Content(<<TextPart(<<"x">>)>>)

ProfileKinds == {"empty", "scalar", "annotated", "prose", "no images",
                 "timeout"}

\* the profile the pipeline returns for the i-th item of a batch
ProfileOfKind(kind, i) ==
    LET product_name == EntryName(i)
        product_folder == PathJoin(BasePath, product_name)
        images == <<PathJoin(product_folder, "a.png")>>
        parsed(result) ==
            ParseAgentOutput(result, product_name, Len(images), images).value
    IN  CASE kind = "empty" -> parsed(EmptyPayload)
          [] kind = "scalar" -> parsed(ScalarPayload)
          [] kind = "annotated" -> parsed(AnnotatedPayload)
          [] kind = "prose" -> parsed(ProsePayload)
          [] kind = "no images" ->
                NoImagesProfile(product_name, product_folder)
          [] kind = "timeout" -> FailedProfile(product_name, "timeout")

\* Python dicts built in code: membership and d.get(k, default)
DictHas(d, k) == \E i \in 1..Len(d) : d[i].key = k
DictGet(d, k, default) ==
    IF DictHas(d, k)
    THEN d[CHOOSE i \in 1..Len(d) : d[i].key = k].value
    ELSE default

\* r.get("error") is not None
HasError(r) == "error" \in DOMAIN r
\* prod.get("attributes", {})
AttributesOf(prod) ==
    IF "attributes" \in DOMAIN prod THEN prod.attributes ELSE <<>>
\* r.get("image_count", 0)
ImageCountOf(r) == IF "image_count" \in DOMAIN r THEN r.image_count ELSE 0

\* the truth value Python gives a decoded JSON value
Truthy(v) ==
    CASE v.t = "null" -> FALSE
      [] v.t = "str" -> v.v # ""
      [] v.t = "num" -> v.v # 0
      [] v.t = "obj" -> DOMAIN v.m # {}

\* f"{(part / whole * 100):.1f}%" in tenths of a percent; the quotient is a
\* tie of the rounding only when whole is a multiple of 16
Percent(part, whole) == (part * 2000 + whole) \div (2 * whole)
\* f"{total / count:.1f}" in tenths
Tenths(total, count) == (total * 20 + count) \div (2 * count)

RECURSIVE Sum(_)
Sum(ns) == IF ns = <<>> THEN 0 ELSE Head(ns) + Sum(Tail(ns))

\* lines 149-150 of generate_summary_report
SuccessfulResults(rs) == SelectSeq(rs, LAMBDA r : ~HasError(r))

\* the failed list taken by status instead of by error
FailedResults_ByStatus(rs) ==
    SelectSeq(rs, LAMBDA r : "status" \in DOMAIN r /\ r.status = "failed")

FailedResults(rs) == SelectSeq(rs, HasError)

\* the (name, value) pairs the loops of lines 154-156 visit, in order
RECURSIVE VisitedAttributes(_)
VisitedAttributes(successful) ==
    IF successful = <<>> THEN <<>>
    ELSE AttributesOf(Head(successful))
            \o VisitedAttributes(Tail(successful))

\* lines 153-161: attribute_stats gets a key when a name is first met, and
\* every visit of the name adds to total, and to filled when the value is
\* true
AttributeStats(successful) ==
    LET visited == VisitedAttributes(successful)
        first_met == SelectSeq([i \in 1..Len(visited) |-> i],
                        LAMBDA i : \A j \in 1..(i - 1) :
                                      visited[j].key # visited[i].key)
        visits(name) == {i \in 1..Len(visited) : visited[i].key = name}
    IN  [k \in 1..Len(first_met) |->
            LET name == visited[first_met[k]].key
            IN  [key |-> name,
                 value |->
                    [filled |-> Cardinality({i \in visits(name) :
                                               Truthy(visited[i].value)}),
                     total |-> Cardinality(visits(name))]]]

\* lines 164-171
AttributeCompletion(attribute_stats) ==
    LET counted == SelectSeq(attribute_stats, LAMBDA e : e.value.total > 0)
    IN  [i \in 1..Len(counted) |->
            [key |-> counted[i].key,
             value |-> [completion_rate |->
                            Percent(counted[i].value.filled,
                                    counted[i].value.total),
                        filled |-> counted[i].value.filled,
                        total |-> counted[i].value.total]]]

\* generate_summary_report; the timestamp, read from the clock, is left out,
\* and "N/A" stands where the code writes it
GenerateReport(rs) ==
    LET successful == SuccessfulResults(rs)
        failed == FailedResults(rs)
        images == Sum([i \in 1..Len(successful) |->
                          ImageCountOf(successful[i])])
    IN  [total_products |-> Len(rs),
         successful |-> Len(successful),
         failed |-> Len(failed),
         success_rate |->
             IF rs # <<>> THEN Done(Percent(Len(successful), Len(rs)))
             ELSE NotDone,
         total_images_processed |-> images,
         average_images_per_product |->
             IF successful # <<>> THEN Done(Tenths(images, Len(successful)))
             ELSE NotDone,
         attribute_completion_rates |->
             AttributeCompletion(AttributeStats(successful)),
         failed_products |->
             [i \in 1..Len(failed) |->
                 [product_name |-> failed[i].product_name,
                  error |-> failed[i].error]]]

GenerateSummaryReport ==
    /\ pc = "export"
    /\ ~report.done
    /\ report' = Done(GenerateReport(profiles))
    /\ UNCHANGED <<profiles, csv_file, json_file, app_csv>>
    /\ UNCHANGED parse_vars
    /\ UNCHANGED batch_vars
    /\ UNCHANGED main_vars
    /\ UNCHANGED runner_vars

\* the names of the two catalogs in the order sorted() gives strings, by
\* code point: the capital S of ISO comes before the m of Image, and the
\* space of Auto White before the f of Autofocus
NameOrder ==
    <<"AE Lock Button", "Auto White Balance", "Autofocus System",
      "Battery Type", "Body Material", "Color", "Connectivity Features",
      "Continuous Shooting Speed", "Dimensions", "Display Size",
      "Display Type", "Hot Shoe Mount", "ISO Range", "Image Stabilization",
      "Lens Mount", "Low Pass Filter", "Megapixels", "Memory Card Slot",
      "Sensor Size", "Sensor Type", "Shutter Release Type",
      "Shutter Speed Range", "Tripod Socket", "USB Port Type",
      "Video Capabilities", "Viewfinder Type", "Weight">>

\* sorted(list(names)), on names of the catalog
Sorted(names) == SelectSeq(NameOrder, LAMBDA n : n \in names)

\* lines 105-108 of export_results_to_csv
AllAttributes(rs) ==
    UNION {{rs[i].attributes[k].key : k \in 1..Len(rs[i].attributes)} :
             i \in {i \in 1..Len(rs) : "attributes" \in DOMAIN rs[i]}}

\* prod.get("product_description", "")
DescriptionOf(prod) ==
    IF "product_description" \in DOMAIN prod THEN prod.product_description
    ELSE JStr("")

\* the text csv.writer writes for a cell: None as the empty string, a str as
\* it is, anything else through str()
CsvField(v) ==
    CASE v.t = "null" -> ""
      [] v.t = "str" -> v.v
      [] v.t = "num" -> ToString(v.v)
      [] v.t = "obj" -> "{...}"
WriteRow(row) == [k \in 1..Len(row) |-> CsvField(row[k])]

\* the row holds the attributes of the profile only, not every column
CsvRow_OwnAttributes(prod, attribute_list) ==
    LET attrs == AttributesOf(prod)
        own == SelectSeq(attribute_list, LAMBDA attr : DictHas(attrs, attr))
    IN  <<JStr(prod.product_name),
          DescriptionOf(prod),
          JStr(IF "image_count" \in DOMAIN prod
               THEN ToString(prod.image_count) ELSE ""),
          JStr(IF ~HasError(prod) THEN "Success" ELSE "Failed")>>
        \o [k \in 1..Len(own) |-> DictGet(attrs, own[k], JStr(""))]

\* lines 119-129: the row of one profile
CsvRow(prod, attribute_list) ==
    LET attrs == AttributesOf(prod)
    IN  <<JStr(prod.product_name),
          DescriptionOf(prod),
          JStr(IF "image_count" \in DOMAIN prod
               THEN ToString(prod.image_count) ELSE ""),
          JStr(IF ~HasError(prod) THEN "Success" ELSE "Failed")>>
        \o [k \in 1..Len(attribute_list) |->
                DictGet(attrs, attribute_list[k], JStr(""))]

\* export_results_to_csv: the path returned and the rows written, the header
\* first; nothing is written for an empty list
CsvExport(rs) ==
    IF rs = <<>> THEN [path |-> "", rows |-> <<>>]
    ELSE LET attribute_list == Sorted(AllAttributes(rs))
             headers == <<"Product Name", "Description", "Images Processed",
                          "Status">> \o attribute_list
         IN  [path |-> "output/extraction_results.csv",
              rows |-> <<headers>>
                       \o [i \in 1..Len(rs) |->
                               WriteRow(CsvRow(rs[i], attribute_list))]]

ExportResultsToCsv ==
    /\ pc = "export"
    /\ ~csv_file.done
    /\ csv_file' = Done(CsvExport(profiles))
    /\ UNCHANGED <<profiles, report, json_file, app_csv>>
    /\ UNCHANGED parse_vars
    /\ UNCHANGED batch_vars
    /\ UNCHANGED main_vars
    /\ UNCHANGED runner_vars

\* f"{x:.1f}%" of a rate kept in tenths
PercentText(tenths) ==
    ToString(tenths \div 10) \o "." \o ToString(tenths % 10) \o "%"

\* result.get("fill_rate", "")
FillRateOf(result) ==
    IF "fill_rate" \in DOMAIN result THEN PercentText(result.fill_rate)
    ELSE ""

\* the CSV export of the app (src/streamlit_app.py): the attribute columns
\* are the keys of the first result, and only the results with status
\* success get a row
AppCsvExport(rs) ==
    LET headers == <<"Product Name", "Description", "Fill Rate">>
                   \o (IF rs # <<>> /\ AttributesOf(rs[1]) # <<>>
                        THEN DictKeys(rs[1].attributes) ELSE <<>>)
        names == SubSeq(headers, 4, Len(headers))
        shown == SelectSeq(rs, LAMBDA r : r.status = "success")
    IN  <<headers>>
        \o [i \in 1..Len(shown) |->
                WriteRow(<<JStr(shown[i].product_name),
                           DescriptionOf(shown[i]),
                           JStr(FillRateOf(shown[i]))>>
                         \o [k \in 1..Len(names) |->
                                 DictGet(AttributesOf(shown[i]), names[k],
                                         JStr(""))])]

AppDownloadCsv ==
    /\ pc = "export"
    /\ ~app_csv.done
    /\ app_csv' = Done(AppCsvExport(profiles))
    /\ UNCHANGED <<profiles, report, csv_file, json_file>>
    /\ UNCHANGED parse_vars
    /\ UNCHANGED batch_vars
    /\ UNCHANGED main_vars
    /\ UNCHANGED runner_vars

\* JSON text as the sequence of its tokens: punctuation, null, strings and
\* numbers.  White space and the escapes inside a string, which json.load
\* undoes, are not kept.
Tok(k, v) == [k |-> k, v |-> v]
Punct(c) == <<Tok(c, "")>>
JArr(items) == [t |-> "arr", items |-> items]

\* the text of a list and of a dict whose members are encoded already
RECURSIVE Separated(_)
Separated(parts) ==
    IF parts = <<>> THEN <<>>
    ELSE IF Len(parts) = 1 THEN Head(parts)
    ELSE Head(parts) \o Punct(",") \o Separated(Tail(parts))
DumpList(items) == Punct("[") \o Separated(items) \o Punct("]")
DumpDict(members) ==
    Punct("{")
    \o Separated([i \in 1..Len(members) |->
                     <<Tok("str", members[i].key)>> \o Punct(":")
                     \o members[i].value])
    \o Punct("}")

\* None written as the text null inside quotes
RECURSIVE DumpValue_NullAsText(_)
DumpValue_NullAsText(v) ==
    CASE v.t = "null" -> <<Tok("str", "null")>>
      [] v.t = "str" -> <<Tok("str", v.v)>>
      [] v.t = "num" -> <<Tok("num", v.v)>>
      [] v.t = "obj" ->
            DumpDict([i \in 1..Len(KeysInOrder(v)) |->
                        [key |-> KeysInOrder(v)[i],
                         value |-> DumpValue_NullAsText(
                                       v.m[KeysInOrder(v)[i]])]])

\* json.dump of a decoded JSON value
RECURSIVE DumpValue(_)
DumpValue(v) ==
    CASE v.t = "null" -> <<Tok("null", "")>>
      [] v.t = "str" -> <<Tok("str", v.v)>>
      [] v.t = "num" -> <<Tok("num", v.v)>>
      [] v.t = "obj" ->
            DumpDict([i \in 1..Len(KeysInOrder(v)) |->
                        [key |-> KeysInOrder(v)[i],
                         value |-> DumpValue(v.m[KeysInOrder(v)[i]])]])

\* the keys a profile can hold; a JSON object decodes to the same dict in
\* whatever order its members are written
ProfileKeys ==
    <<"product_name", "image_count", "image_paths", "attributes",
      "product_description", "fill_rate", "filled_attributes",
      "total_attributes", "enrichment_summary", "agent_metadata", "error",
      "status">>

\* json.dump of the value a profile holds under a key
DumpField(prod, key) ==
    CASE key \in {"product_name", "error", "status"} ->
            <<Tok("str", prod[key])>>
      [] key \in {"image_count", "filled_attributes", "total_attributes"} ->
            <<Tok("num", prod[key])>>
      [] key = "fill_rate" -> <<Tok("str", PercentText(prod[key]))>>
      [] key = "image_paths" ->
            DumpList([i \in 1..Len(prod[key]) |->
                        <<Tok("str", prod[key][i])>>])
      [] key \in {"product_description", "enrichment_summary"} ->
            DumpValue(prod[key])
      [] key = "agent_metadata" ->
            DumpDict(<<[key |-> "pipeline_status",
                        value |-> <<Tok("str", prod[key].pipeline_status)>>],
                       [key |-> "images_processed",
                        value |-> <<Tok("num", prod[key].images_processed)>>],
                       [key |-> "stages_completed",
                        value |-> <<Tok("num", prod[key].stages_completed)>>],
                       [key |-> "timestamp",
                        value |-> <<Tok("str", prod[key].timestamp)>>]>>)
      [] key = "attributes" ->
            DumpDict([i \in 1..Len(prod[key]) |->
                        [key |-> prod[key][i].key,
                         value |-> DumpValue(prod[key][i].value)]])

DumpProfile(prod) ==
    LET keys == SelectSeq(ProfileKeys, LAMBDA k : k \in DOMAIN prod)
    IN  DumpDict([i \in 1..Len(keys) |->
                    [key |-> keys[i], value |-> DumpField(prod, keys[i])]])

\* json.dump(results, f, indent=2, ensure_ascii=False)
JsonDump(rs) == DumpList([i \in 1..Len(rs) |-> DumpProfile(rs[i])])

\* export_results_to_json: the file written
ExportResultsToJson ==
    /\ pc = "export"
    /\ ~json_file.done
    /\ json_file' = Done(JsonDump(profiles))
    /\ UNCHANGED <<profiles, report, csv_file, app_csv>>
    /\ UNCHANGED parse_vars
    /\ UNCHANGED batch_vars
    /\ UNCHANGED main_vars
    /\ UNCHANGED runner_vars

\* json.load, on well-formed text: the value that starts at token i and the
\* index of the token after it; the last of two members with one key wins
RECURSIVE ParseValue(_, _)
RECURSIVE ParseItems(_, _, _)
RECURSIVE ParseMembers(_, _, _)
ParseValue(toks, i) ==
    CASE toks[i].k = "null" -> [value |-> JNull, next |-> i + 1]
      [] toks[i].k = "str" -> [value |-> JStr(toks[i].v), next |-> i + 1]
      [] toks[i].k = "num" -> [value |-> JNum(toks[i].v), next |-> i + 1]
      [] toks[i].k = "[" -> ParseItems(toks, i + 1, <<>>)
      [] toks[i].k = "{" -> ParseMembers(toks, i + 1, EmptyMap)
ParseItems(toks, i, items) ==
    IF toks[i].k = "]" THEN [value |-> JArr(items), next |-> i + 1]
    ELSE IF toks[i].k = "," THEN ParseItems(toks, i + 1, items)
    ELSE LET item == ParseValue(toks, i)
         IN  ParseItems(toks, item.next, Append(items, item.value))
ParseMembers(toks, i, members) ==
    IF toks[i].k = "}" THEN [value |-> JObj(members), next |-> i + 1]
    ELSE IF toks[i].k = "," THEN ParseMembers(toks, i + 1, members)
    ELSE LET member == ParseValue(toks, i + 2)
         IN  ParseMembers(toks, member.next,
                          (toks[i].v :> member.value) @@ members)
JsonLoad(toks) == ParseValue(toks, 1).value

InitExport ==
    /\ tokens = <<>>
    /\ agent_result = [kind |-> "other"]
    /\ ppc = "idle"
    /\ parse_out = Return("none")
    /\ base_folder = [exists |-> TRUE, entries |-> <<>>]
    /\ pc = "export"
    /\ product_folders = <<>>
    /\ idx = 0
    /\ results = <<>>
    /\ batch_out = Return("none")
    /\ frame = [product_name |-> "none"]
    /\ item_out = Return("none")
    /\ calls = <<>>
    /\ \E n \in 0..MaxItems :
          \E f \in [1..n -> ProfileKinds] :
              profiles = [i \in 1..n |-> ProfileOfKind(f[i], i)]
    /\ report = NotDone
    /\ csv_file = NotDone
    /\ json_file = NotDone
    /\ app_csv = NotDone
    /\ MainIdle
    /\ RunnerIdle

NextExport ==
    \/ GenerateSummaryReport
    \/ ExportResultsToCsv
    \/ ExportResultsToJson
    \/ AppDownloadCsv

SpecExport == InitExport /\ [][NextExport]_vars

(***************************************************************************)
(* The pipeline of src/code: three agents run in sequence, a search tool   *)
(* for the second, and process_and_export around the batch.                *)
(***************************************************************************)
\* ATTRIBUTES of src/code/agents.py
MainATTRIBUTES ==
    <<"Color", "Body Material", "Dimensions", "Weight", "Sensor Type",
      "Display Type", "Viewfinder Type", "Battery Type", "Memory Card Slot",
      "USB Port Type", "Hot Shoe Mount", "Tripod Socket", "Low Pass Filter",
      "Auto White Balance", "AE Lock Button", "Shutter Release Type",
      "Lens Mount", "Connectivity Features", "Video Capabilities",
      "Autofocus System">>

\* the answers of the search backend to requests.get: a page of items, or
\* an exception of requests
SearchItem(title) == [title |-> title, link |-> "https://example.com"]
SearchResponses ==
    {[kind |-> "ok", items |-> <<SearchItem("EOS R5 specifications")>>],
     [kind |-> "ok", items |-> <<>>],
     [kind |-> "ConnectionError"],
     [kind |-> "HTTPError"],
     [kind |-> "Timeout"]}

\* search_google_cse: every exception of the request is caught and gives
\* the empty list
search_google_cse(response) ==
    IF response.kind = "ok"
    THEN [i \in 1..Len(response.items) |->
             [title |-> response.items[i].title,
              link |-> response.items[i].link,
              snippet |-> "",
              displayLink |-> ""]]
    ELSE <<>>

\* google_custom_search: credentials is whether GOOGLE_CSE_API_KEY and
\* GOOGLE_CSE_CX are set in the environment
google_custom_search(credentials, response) ==
    IF ~credentials
    THEN [success |-> FALSE,
          results_count |-> 0,
          message |-> "Google Custom Search API credentials not configured"]
    ELSE LET found == search_google_cse(response)
         IN  IF found = <<>>
             THEN [success |-> FALSE,
                   results_count |-> 0,
                   message |-> "No results found"]
             ELSE [success |-> TRUE,
                   results_count |-> Len(found),
                   message |-> ""]

\* the profile _parse_agent_output of src/code/main.py returns from its
\* except branch
MainParsingErrorProfile(exc, product_name, image_count) ==
    [product_name |-> product_name,
     image_count |-> image_count,
     attributes |-> <<>>,
     error |-> "Parsing error: " \o exc,
     status |-> "partial"]

\* the loop over ATTRIBUTES of lines 349-356
MainAttributes(attrs) ==
    [i \in 1..Len(MainATTRIBUTES) |->
        [key |-> MainATTRIBUTES[i],
         value |-> AttributeValue(attrs, MainATTRIBUTES[i])]]

\* result_data of lines 306-331.  A Content has neither content nor text,
\* and None has neither: both take the last branch.
MainResultData(result, product_name) ==
    IF result.kind = "event" /\ result.content # NoContent
    THEN LET text_parts == TextParts(result.content.parts)
         IN  IF text_parts = <<>> THEN JObj(EmptyMap)
             ELSE LET decoded == JsonLoads(Join(text_parts))
                  IN  IF decoded.ok THEN decoded.value
                      ELSE JObj("raw_output" :> JStr(Join(text_parts)))
    ELSE IF result.kind = "dict" THEN result.data
    ELSE JObj("product_name" :> JStr(product_name)
              @@ "attributes" :> JObj(EmptyMap)
              @@ "status" :> JStr("processed")
              @@ "raw_result" :> JStr("repr"))

\* _parse_agent_output of src/code/main.py
MainParseAgentOutput(result, product_name, image_count) ==
    LET result_data == MainResultData(result, product_name)
        attrs == Get(result_data, "attributes", JObj(EmptyMap))
    IN  IF ~IsDict(result_data) \/ ~IsDict(attrs)
        THEN MainParsingErrorProfile("AttributeError", product_name,
                                     image_count)
        ELSE [product_name |-> product_name,
              image_count |-> image_count,
              attributes |-> MainAttributes(attrs),
              product_description |->
                  Get(result_data, "product_description", JStr("")),
              enrichment_summary |->
                  Get(result_data, "enrichment_summary", JObj(EmptyMap)),
              agent_metadata |->
                  [pipeline_status |-> "success",
                   images_processed |-> image_count,
                   stages_completed |-> 3,
                   timestamp |-> "."]]

\* the text a stage answered with, <<>> when it yielded no content
StageText(answer) ==
    IF answer # <<>> /\ answer[1].content # NoContent
    THEN answer[1].content.parts[1].text
    ELSE <<>>

\* the sub-agents of the sequential agent of src/code/agents.py, by position
MainStages == 3
\* the output_key of each sub-agent, all written under one key
output_key_Shared(stage) == "final_product_profile"

\* the output_key of each sub-agent
output_key(stage) ==
    CASE stage = 1 -> "extracted_attributes"
      [] stage = 2 -> "search_results"
      [] stage = 3 -> "final_product_profile"

\* no search asked for by the second agent
NoSearch == [kind |-> "none"]

\* A product folder as the pipeline of src/code meets it:
\*   credentials: GOOGLE_CSE_API_KEY and GOOGLE_CSE_CX are set;
\*   search: the answer of the backend to the search of the second agent,
\*   NoSearch when the agent asks for none.
MainEntry(is_dir, files, readable, fail_stage, fail_msg, credentials, search) ==
    [is_dir |-> is_dir, files |-> files, readable |-> readable,
     fail_stage |-> fail_stage, fail_msg |-> fail_msg,
     credentials |-> credentials, search |-> search,
     answers |-> <<Yields(DocScalarText), Yields(<<"x">>),
                   Yields(DocAnnotatedText)>>]

MainScenarios ==
    {MainEntry(TRUE, TextOnly, FALSE, 0, "", TRUE, NoSearch),
     MainEntry(TRUE, Photos, FALSE, 0, "", TRUE, NoSearch),
     MainEntry(TRUE, Photos, TRUE, 1, "timeout", TRUE, NoSearch),
     MainEntry(TRUE, Photos, TRUE, 3, "503 backend error", TRUE,
               [kind |-> "ok", items |-> <<>>]),
     MainEntry(TRUE, Photos, TRUE, 0, "", FALSE, [kind |-> "Timeout"])}
    \cup {MainEntry(TRUE, Photos, TRUE, 0, "", TRUE, r) :
            r \in SearchResponses \ {[kind |-> "ok", items |-> <<>>]}}

MainNamed(scn, i) ==
    [name |-> EntryName(i), is_dir |-> scn.is_dir, files |-> scn.files,
     readable |-> scn.readable, fail_stage |-> scn.fail_stage,
     fail_msg |-> scn.fail_msg, credentials |-> scn.credentials,
     search |-> scn.search, answers |-> scn.answers]
\* the listing of a base folder whose i-th entry is as scns[i]
MainListing(scns) == [i \in 1..Len(scns) |-> MainNamed(scns[i], i)]

\* lines 226-232 of src/code/main.py; no official specs are known for the
\* products of the model
InitialState(product_name, product_folder, images) ==
    <<[key |-> "product_name", value |-> product_name],
      [key |-> "official_specs_json", value |-> "{}"],
      [key |-> "product_folder", value |-> product_folder],
      [key |-> "images_found", value |-> ToString(Len(images))],
      [key |-> "product_description", value |-> ""]>>

\* the events of a call and answer of the search tool: their parts hold the
\* call and its response, no text
ToolEvents == <<Event(Content(<<BlobPart>>)), Event(Content(<<BlobPart>>))>>

\* get_pipeline_report
GetReport(history) ==
    LET successes == Cardinality({i \in 1..Len(history) :
                                     history[i].status = "success"})
        errors == Cardinality({i \in 1..Len(history) :
                                  history[i].status = "error"})
    IN  [enrichment_history |-> history,
         total_products_processed |-> Len(history),
         successful_extractions |-> successes,
         failed_extractions |-> errors,
         success_rate |->
             IF history # <<>>
             THEN [part |-> successes, whole |-> Len(history)]
             ELSE [part |-> 0, whole |-> 1]]

\* process_and_export, lines 273-276, down to the listing of the base folder
\* in process_batch_async (lines 388-393 of src/code/main.py)
MainListFolders ==
    /\ pc = "m_start"
    /\ IF base_folder.exists
       THEN /\ product_folders' =
                  SelectSeq(base_folder.entries, LAMBDA e : e.is_dir)
            /\ idx' = 1
            /\ pc' = "m_loop"
            /\ UNCHANGED batch_out
       ELSE /\ batch_out' = Raise(NotFound(BasePath))
            /\ pc' = "m_raised"
            /\ UNCHANGED <<product_folders, idx>>
    /\ UNCHANGED <<base_folder, results, frame, item_out, calls>>
    /\ UNCHANGED <<parse_vars, export_vars, main_vars, runner_vars>>

\* lines 395-400 and 107-111: the loop enters run_extraction_pipeline
MainBeginItem ==
    /\ pc = "m_loop"
    /\ idx <= Len(product_folders)
    /\ frame' = [product_name |-> entry.name,
                 product_folder |-> PathJoin(BasePath, entry.name),
                 images |-> <<>>,
                 events |-> <<>>,
                 stage |-> 0,
                 exc |-> "",
                 tool |-> NotDone]
    /\ pipeline_report' = NotDone
    /\ pc' = "m_find"
    /\ UNCHANGED <<base_folder, product_folders, idx, results, batch_out,
                   item_out, calls, session, enrichment_history>>
    /\ UNCHANGED <<parse_vars, export_vars, runner_vars>>

\* lines 112-124: without images the call returns at once, and nothing is
\* recorded in the history
MainFindImages ==
    /\ pc = "m_find"
    /\ LET images == FindProductImages(frame.product_folder, entry.files)
       IN  IF images = <<>>
           THEN /\ item_out' = Return(NoImagesProfile(frame.product_name,
                                                      frame.product_folder))
                /\ pc' = "m_return"
                /\ UNCHANGED frame
           ELSE /\ frame' = [frame EXCEPT !.images = images]
                /\ pc' = "m_prepare"
                /\ UNCHANGED item_out
    /\ UNCHANGED <<base_folder, product_folders, idx, results, batch_out,
                   calls>>
    /\ UNCHANGED <<parse_vars, export_vars, main_vars, runner_vars>>

\* lines 126-241: the first image is read, a runner made for this call, its
\* session created and the run started with the initial state
MainStartRun ==
    /\ pc = "m_prepare"
    /\ IF entry.readable
       THEN /\ frame' = [frame EXCEPT !.stage = 1]
            /\ session' = InitialState(frame.product_name,
                                       frame.product_folder, frame.images)
            /\ pc' = "m_run"
       ELSE /\ frame' = [frame EXCEPT !.exc =
                  PermissionDenied(frame.images[1])]
            /\ pc' = "m_except"
            /\ UNCHANGED session
    /\ UNCHANGED <<base_folder, product_folders, idx, results, batch_out,
                   item_out, calls, enrichment_history, pipeline_report>>
    /\ UNCHANGED <<parse_vars, export_vars, runner_vars>>

\* lines 243-246: the sequential agent runs its next sub-agent; the second
\* one may call the search tool; the text the sub-agent ends with is stored
\* in the session under its output_key
MainRunStage ==
    /\ pc = "m_run"
    /\ frame.stage <= MainStages
    /\ IF entry.fail_stage = frame.stage
       THEN /\ frame' = [frame EXCEPT !.exc = entry.fail_msg]
            /\ pc' = "m_except"
            /\ UNCHANGED session
       ELSE LET searches == frame.stage = 2 /\ entry.search # NoSearch
                answer == entry.answers[frame.stage]
            IN  /\ frame' = [frame EXCEPT
                      !.events = @ \o (IF searches THEN ToolEvents ELSE <<>>)
                                   \o answer,
                      !.tool = IF searches
                               THEN Done(google_custom_search(
                                        entry.credentials, entry.search))
                               ELSE @,
                      !.stage = @ + 1]
                /\ session' = IF StageText(answer) # <<>>
                              THEN DictSet(session, output_key(frame.stage),
                                           StageText(answer))
                              ELSE session
                /\ pc' = "m_run"
    /\ UNCHANGED <<base_folder, product_folders, idx, results, batch_out,
                   item_out, calls, enrichment_history, pipeline_report>>
    /\ UNCHANGED <<parse_vars, export_vars, runner_vars>>

\* lines 248-276: the final result is picked and parsed, and the call is
\* recorded as a success
MainParseResult ==
    /\ pc = "m_run"
    /\ frame.stage > MainStages
    /\ item_out' = Return(MainParseAgentOutput(SelectResult(frame.events),
                              frame.product_name, Len(frame.images)))
    /\ enrichment_history' =
          Append(enrichment_history,
                 [product |-> frame.product_name,
                  status |-> "success",
                  images_processed |-> Len(frame.images)])
    /\ pc' = "m_return"
    /\ UNCHANGED <<base_folder, product_folders, idx, results, batch_out,
                   frame, calls, session, pipeline_report>>
    /\ UNCHANGED <<parse_vars, export_vars, runner_vars>>

\* lines 278-289: except Exception
MainHandleException ==
    /\ pc = "m_except"
    /\ enrichment_history' =
          Append(enrichment_history,
                 [product |-> frame.product_name,
                  status |-> "error",
                  error |-> frame.exc])
    /\ item_out' = Return(FailedProfile(frame.product_name, frame.exc))
    /\ pc' = "m_return"
    /\ UNCHANGED <<base_folder, product_folders, idx, results, batch_out,
                   frame, calls, session, pipeline_report>>
    /\ UNCHANGED <<parse_vars, export_vars, runner_vars>>

\* lines 400-408: the result joins the list and the loop goes on
MainEndItem ==
    /\ pc = "m_return"
    /\ results' = AppendResult(results, item_out, entry.name)
    /\ idx' = idx + 1
    /\ pc' = "m_loop"
    /\ UNCHANGED <<base_folder, product_folders, batch_out, frame, item_out,
                   calls>>
    /\ UNCHANGED <<parse_vars, export_vars, main_vars, runner_vars>>

\* get_pipeline_report, asked between two calls
GetPipelineReport ==
    /\ pc = "m_loop"
    /\ ~pipeline_report.done
    /\ pipeline_report' = Done(GetReport(enrichment_history))
    /\ UNCHANGED <<session, enrichment_history>>
    /\ UNCHANGED <<parse_vars, batch_vars, export_vars, runner_vars>>

\* line 395: the for loop over the product folders has no folder left
LoopExhausted_OneLeft == idx >= Len(product_folders)
LoopExhausted == idx > Len(product_folders)

\* lines 410-421, and line 276 of process_and_export: the list is returned
\* to process_and_export
MainFinish ==
    /\ pc = "m_loop"
    /\ LoopExhausted
    /\ batch_out' = Return(results)
    /\ profiles' = results
    /\ pc' = "pe_json"
    /\ UNCHANGED <<base_folder, product_folders, idx, results, frame,
                   item_out, calls>>
    /\ UNCHANGED <<report, csv_file, json_file, app_csv>>
    /\ UNCHANGED <<parse_vars, main_vars, runner_vars>>

\* lines 281-282 of process_and_export
ProcessExportJson ==
    /\ pc = "pe_json"
    /\ json_file' = Done(JsonDump(profiles))
    /\ pc' = "pe_csv"
    /\ UNCHANGED <<base_folder, product_folders, idx, results, batch_out,
                   frame, item_out, calls>>
    /\ UNCHANGED <<profiles, report, csv_file, app_csv>>
    /\ UNCHANGED <<parse_vars, main_vars, runner_vars>>

\* lines 284-285
ProcessExportCsv ==
    /\ pc = "pe_csv"
    /\ csv_file' = Done(CsvExport(profiles))
    /\ pc' = "pe_report"
    /\ UNCHANGED <<base_folder, product_folders, idx, results, batch_out,
                   frame, item_out, calls>>
    /\ UNCHANGED <<profiles, report, json_file, app_csv>>
    /\ UNCHANGED <<parse_vars, main_vars, runner_vars>>

\* lines 288-296
ProcessReport ==
    /\ pc = "pe_report"
    /\ report' = Done(GenerateReport(profiles))
    /\ pc' = "pe_done"
    /\ UNCHANGED <<base_folder, product_folders, idx, results, batch_out,
                   frame, item_out, calls>>
    /\ UNCHANGED <<profiles, csv_file, json_file, app_csv>>
    /\ UNCHANGED <<parse_vars, main_vars, runner_vars>>

InitMain ==
    /\ tokens = <<>>
    /\ agent_result = [kind |-> "other"]
    /\ ppc = "idle"
    /\ parse_out = Return("none")
    /\ \/ base_folder = [exists |-> FALSE, entries |-> <<>>]
       \/ \E n \in 0..MaxItems :
             \E scns \in [1..n -> MainScenarios] :
                 base_folder = [exists |-> TRUE, entries |-> MainListing(scns)]
    /\ pc = "m_start"
    /\ product_folders = <<>>
    /\ idx = 0
    /\ results = <<>>
    /\ batch_out = Return("none")
    /\ frame = [product_name |-> "none"]
    /\ item_out = Return("none")
    /\ calls = <<>>
    /\ ExportIdle
    /\ MainIdle
    /\ RunnerIdle

NextMain ==
    \/ MainListFolders
    \/ MainBeginItem
    \/ MainFindImages
    \/ MainStartRun
    \/ MainRunStage
    \/ MainParseResult
    \/ MainHandleException
    \/ MainEndItem
    \/ GetPipelineReport
    \/ MainFinish
    \/ ProcessExportJson
    \/ ProcessExportCsv
    \/ ProcessReport

SpecMain == InitMain /\ [][NextMain]_vars

(***************************************************************************)
(* The sessions of the runs.  The pipeline of src/pipeline.py keeps one    *)
(* runner, with one in-memory session service, for all its calls; the      *)
(* pipeline of src/code/main.py makes a runner for every call.  A run uses *)
(* the session its runner holds under the session id of the call.          *)
(***************************************************************************)
\* the characters of the product names below for which str.isalnum holds
AlnumChars == {"C", "a", "m", "1", "2"}
isalnum(c) == c \in AlnumChars

\* product names, as their characters: three that differ in one
\* non-alphanumeric character only, and another
ProductNames ==
    {<<"C", "a", "m", " ", "1">>, <<"C", "a", "m", "-", "1">>,
     <<"C", "a", "m", "_", "1">>, <<"C", "a", "m", "2">>}

\* line 157 of src/pipeline.py
safe_name(product_name) ==
    [i \in 1..Len(product_name) |->
        IF isalnum(product_name[i]) THEN product_name[i] ELSE "_"]
\* lines 156-158 of src/pipeline.py; timestamp is the clock in milliseconds
session_id(product_name, timestamp) ==
    <<"session_">> \o safe_name(product_name) \o <<"_", ToString(timestamp)>>

\* line 169 of src/code/main.py
main_safe_name(product_name) ==
    [i \in 1..Len(product_name) |->
        IF isalnum(product_name[i]) \/ product_name[i] \in {"_", "-"}
        THEN product_name[i] ELSE "_"]
\* line 170 of src/code/main.py
main_session_id(product_name) == <<"session_">> \o main_safe_name(product_name)

\* the runner of src/pipeline.py, made once in __init__
SharedRunner == 0
\* the session a runner holds under an id: made when the id is new to the
\* runner, the one already there otherwise
OpenSession(store, runner, sid) ==
    IF \E i \in 1..Len(store) : store[i] = [runner |-> runner, id |-> sid]
    THEN store
    ELSE Append(store, [runner |-> runner, id |-> sid])
SessionIndex(store, runner, sid) ==
    CHOOSE i \in 1..Len(store) : store[i] = [runner |-> runner, id |-> sid]

\* time passes between two calls
ClockTick ==
    /\ pc = "session"
    /\ clock < MaxClock
    /\ clock' = clock + 1
    /\ UNCHANGED <<sessions, runs>>
    /\ UNCHANGED <<parse_vars, batch_vars, export_vars, main_vars>>

\* lines 154-180 of src/pipeline.py: a call of extract_product_attributes
\* reads the clock and starts a run of the shared runner
ExtractStartRun ==
    /\ pc = "session"
    /\ Len(runs) < MaxRuns
    /\ \E product_name \in ProductNames :
          LET sid == session_id(product_name, clock)
              store == OpenSession(sessions, SharedRunner, sid)
          IN  /\ sessions' = store
              /\ runs' = Append(runs,
                     [product_name |-> product_name,
                      runner |-> SharedRunner,
                      session_id |-> sid,
                      session |-> SessionIndex(store, SharedRunner, sid)])
    /\ UNCHANGED clock
    /\ UNCHANGED <<parse_vars, batch_vars, export_vars, main_vars>>

\* lines 161-192 of src/code/main.py: a call of run_extraction_pipeline
\* makes a runner and creates, or gets, the session of the product
MainCreateSession ==
    /\ pc = "session"
    /\ Len(runs) < MaxRuns
    /\ \E product_name \in ProductNames :
          LET runner == Len(runs) + 1
              sid == main_session_id(product_name)
              store == OpenSession(sessions, runner, sid)
          IN  /\ sessions' = store
              /\ runs' = Append(runs,
                     [product_name |-> product_name,
                      runner |-> runner,
                      session_id |-> sid,
                      session |-> SessionIndex(store, runner, sid)])
    /\ UNCHANGED clock
    /\ UNCHANGED <<parse_vars, batch_vars, export_vars, main_vars>>

InitSession ==
    /\ tokens = <<>>
    /\ agent_result = [kind |-> "other"]
    /\ ppc = "idle"
    /\ parse_out = Return("none")
    /\ base_folder = [exists |-> TRUE, entries |-> <<>>]
    /\ pc = "session"
    /\ product_folders = <<>>
    /\ idx = 0
    /\ results = <<>>
    /\ batch_out = Return("none")
    /\ frame = [product_name |-> "none"]
    /\ item_out = Return("none")
    /\ calls = <<>>
    /\ ExportIdle
    /\ MainIdle
    /\ RunnerIdle

NextSession ==
    \/ ClockTick
    \/ ExtractStartRun
    \/ MainCreateSession

SpecSession == InitSession /\ [][NextSession]_vars

(***************************************************************************)
(* Properties of _parse_agent_output.                                      *)
(***************************************************************************)
text == Flatten(tokens)
IsTextResult == agent_result.kind \in {"content", "event"}
ParseAlone(doc) ==
    ParseAgentOutput(Content(<<TextPart(TokenText(doc))>>), ParseName,
                     Len(ParseImages), ParseImages)

\* the value a profile holds for an attribute name
ValueOf(attributes, name) ==
    LET i == CHOOSE i \in 1..Len(attributes) : attributes[i].key = name
    IN  attributes[i].value

\* what the documents say about Color
ColorOf(doc) == IF doc = "E" THEN JNull ELSE JStr("Black")

\* toks is prose, one closed code block holding the document toks[j], prose
IsOneBlock(toks, j) ==
    \E i \in 1..Len(toks), k \in 1..Len(toks) :
        /\ i < j /\ j < k
        /\ toks[i] \in OpenTokens
        /\ toks[j] \in ObjectTokens
        /\ toks[k] = "F"
        /\ \A n \in 1..Len(toks) :
              /\ (n < i \/ n > k) => toks[n] \in ProseTokens
              /\ ((i < n /\ n < j) \/ (j < n /\ n < k)) => toks[n] = "S"

\* toks is the document toks[j] alone, between line breaks
IsBareDocument(toks, j) ==
    /\ toks[j] \in ObjectTokens
    /\ \A n \in 1..Len(toks) : n # j => toks[n] = "S"

\* C1: for every agent result and every text it carries,
\* _parse_agent_output returns a profile and raises nothing.
C1_ParseAlwaysReturnsProfile ==
    ppc # "ready" =>
        /\ ppc = "returned"
        /\ ~parse_out.raised
        /\ parse_out.value.product_name = ParseName
        /\ parse_out.value.status \in {"success", "partial"}

\* valid JSON that is no object makes _format_result raise, and the call
\* still returns a profile
C1_Witness ==
    /\ ppc = "returned"
    /\ tokens = <<"X", "F", "N", "F">>
    /\ parse_out.value.status = "partial"
    /\ parse_out.value.error = "Parsing error: AttributeError"

FirstOpen(toks) == SetMin({i \in 1..Len(toks) : toks[i] \in OpenTokens})
FirstBlockDoc(toks) == toks[FirstOpen(toks) + 2]
\* every code block of toks holds a JSON object
HoldsObjects(toks) ==
    \A i \in 1..Len(toks) : toks[i] \in DocTokens => toks[i] \in ObjectTokens

\* C8: when the text holds more than one code block, the payload is decoded
\* from the first code block in text order, whatever mix of tagged and
\* untagged blocks the text holds.
C8_FirstBlockIsDecoded ==
    (ppc # "ready" /\ tokens \in TwoBlockTexts /\ HoldsObjects(tokens)) =>
        parse_out = ParseAlone(FirstBlockDoc(tokens))

\* toks opens a code block and never closes it
IsUnterminated(toks) ==
    /\ Cardinality({i \in 1..Len(toks) : toks[i] \in OpenTokens}) = 1
    /\ \A i \in 1..Len(toks) : toks[i] # "B"

\* toks is a JSON object cut off before its end
IsCutOff(toks) ==
    \E j \in 1..Len(toks) :
        /\ toks[j] = "T"
        /\ \A n \in 1..Len(toks) : n # j => toks[n] = "S"

\* C9: a text with an opening marker and no closing marker, or structured
\* text cut off before its end, gives the degraded result: status partial
\* and no attributes, never a structured payload.
C9_UnterminatedIsDegraded ==
    (ppc # "ready" /\ IsTextResult
        /\ (IsUnterminated(tokens) \/ IsCutOff(tokens))) =>
        /\ parse_out.value.status = "partial"
        /\ parse_out.value.attributes = <<>>

\* C10: a profile with status success names exactly the catalog, each name
\* once, whatever keys the decoded payload had.
C10_SuccessNamesTheCatalog ==
    (ppc = "returned" /\ parse_out.value.status = "success") =>
        LET keys == DictKeys(parse_out.value.attributes)
        IN  /\ Len(keys) = Len(ATTRIBUTES)
            /\ {keys[i] : i \in 1..Len(keys)}
                 = {ATTRIBUTES[i] : i \in 1..Len(ATTRIBUTES)}
            /\ \A i, j \in 1..Len(keys) : i # j => keys[i] # keys[j]

\* a payload with a misspelled and an extra key and without most names
C10_Witness ==
    /\ ppc = "returned"
    /\ agent_result.kind = "dict"
    /\ HasKey(agent_result.data, "attributes")
    /\ IsDict(agent_result.data.m["attributes"])
    /\ DOMAIN agent_result.data.m["attributes"].m = {"Colour", "Price"}
    /\ parse_out.value.status = "success"
    /\ Len(parse_out.value.attributes) = Len(ATTRIBUTES)

\* the dict result with the keys of its attributes object in the order o
Reordered(result, o) ==
    [result EXCEPT !.data.m["attributes"].o = o]

HasOrderedAttributes(result) ==
    /\ result.kind = "dict"
    /\ HasKey(result.data, "attributes")
    /\ IsDict(result.data.m["attributes"])
    /\ "o" \in DOMAIN result.data.m["attributes"]

\* C14: building the attribute set is deterministic: a payload gives the
\* same profile as every payload equal to it, whatever the order of the keys
\* of its attributes object, and the attributes come in catalog order.
C14_AttributesInCatalogOrder ==
    (ppc = "returned" /\ HasOrderedAttributes(agent_result)) =>
        /\ parse_out.value.status = "success"
        /\ DictKeys(parse_out.value.attributes) = ATTRIBUTES
        /\ \A o \in Orders(DOMAIN agent_result.data.m["attributes"].m) :
              ParseAgentOutput(Reordered(agent_result, o), ParseName,
                               Len(ParseImages), ParseImages) = parse_out

\* a payload that names two catalog attributes against the catalog order
C14_Witness ==
    /\ ppc = "returned"
    /\ HasOrderedAttributes(agent_result)
    /\ agent_result.data.m["attributes"].o = <<"Weight", "Color">>
    /\ parse_out.value.status = "success"
    /\ ValueOf(parse_out.value.attributes, "Weight") = JStr("v")
    /\ ValueOf(parse_out.value.attributes, "Color") = JStr("w")
    /\ DictKeys(parse_out.value.attributes) = ATTRIBUTES

\* the attributes object of a dict result that _format_result accepts
RawAttrs(result) == Get(result.data, "attributes", JObj(EmptyMap))

\* what the claim gives a catalog name: the value field of an annotated
\* record, a scalar entry itself, null without entry
ClaimedValue(raw_attrs, name) ==
    IF ~HasKey(raw_attrs, name) THEN JNull
    ELSE IF ~IsDict(raw_attrs.m[name]) THEN raw_attrs.m[name]
    ELSE IF HasKey(raw_attrs.m[name], "value")
    THEN raw_attrs.m[name].m["value"]
    ELSE JNull

InCatalog(name) == \E n \in 1..Len(ATTRIBUTES) : ATTRIBUTES[n] = name

\* C26: for every catalog attribute, _format_result sets the profile value
\* to the value field when the payload entry is an annotated record (a
\* dict), to the entry itself when it is a scalar, and to null when the
\* payload has no entry; payload keys outside the catalog never appear in
\* the profile.
C26_ValueFollowsTheEntry ==
    (/\ ppc = "returned"
     /\ agent_result.kind = "dict"
     /\ parse_out.value.status = "success") =>
        LET raw_attrs == RawAttrs(agent_result)
            attributes == parse_out.value.attributes
        IN  /\ \A n \in 1..Len(ATTRIBUTES) :
                  ValueOf(attributes, ATTRIBUTES[n])
                      = ClaimedValue(raw_attrs, ATTRIBUTES[n])
            /\ \A k \in DOMAIN raw_attrs.m :
                  ~InCatalog(k) => ~DictHas(attributes, k)

\* an annotated record, a scalar and a key outside the catalog in one payload
C26_Witness ==
    /\ ppc = "returned"
    /\ agent_result.kind = "dict"
    /\ parse_out.value.status = "success"
    /\ RawAttrs(agent_result) =
          JObj("Color" :> JObj("value" :> JStr("v")) @@ "Price" :> JNum(1))
    /\ ValueOf(parse_out.value.attributes, "Color") = JStr("v")
    /\ ValueOf(parse_out.value.attributes, "Weight") = JNull

(***************************************************************************)
(* Properties of the batch and of extract_product_attributes.              *)
(***************************************************************************)
\* the product subfolders of the base folder, in listing order
Subfolders == SelectSeq(base_folder.entries, LAMBDA e : e.is_dir)
FolderOf(e) == PathJoin(BasePath, e.name)

HasNoImage(e) ==
    \A i \in 1..Len(e.files) : Lower(e.files[i].suffix) \notin image_extensions
\* the folder of the item, its first image or a stage raises
Raises(e) ==
    \/ ~e.listable
    \/ ~HasNoImage(e) /\ (~e.readable \/ e.fail_stage \in 1..NumStages)
\* the message of that exception; a.png is the first image of Photos
RaisedMessage(e) ==
    IF ~e.listable THEN PermissionDenied(FolderOf(e))
    ELSE IF ~e.readable THEN PermissionDenied(PathJoin(FolderOf(e), "a.png"))
    ELSE e.fail_msg
\* the text of the last event that has content, <<>> when there is none
RECURSIVE FinalText(_)
FinalText(answers) ==
    IF answers = <<>> THEN <<>>
    ELSE LET last == answers[Len(answers)]
         IN  IF last # <<>> /\ last[1].content # NoContent
             THEN last[1].content.parts[1].text
             ELSE FinalText(SubSeq(answers, 1, Len(answers) - 1))
\* what the item on its own ends with
ExpectedStatus(e) ==
    IF Raises(e) \/ HasNoImage(e) THEN "failed"
    ELSE IF FinalText(e.answers)
               \in {DocEmptyText, DocScalarText, DocDefaultText}
    THEN "success"
    ELSE "partial"

\* the error a failed item on its own ends with
ExpectedError(e) ==
    IF e.listable /\ HasNoImage(e)
    THEN "No images found in " \o FolderOf(e)
    ELSE RaisedMessage(e)

\* the items whose result is in the list
Finished == 1..Len(results)

\* C2: process_batch_async returns one result per product subfolder, in
\* listing order; an item that fails stops no later item, and every result
\* is what its own item gives, whatever the other items do.
C2_OneResultPerSubfolder ==
    /\ pc \in {"loop", "done"} => Len(results) = idx - 1
    /\ \A i \in Finished :
          /\ results[i].product_name = Subfolders[i].name
          /\ results[i].status = ExpectedStatus(Subfolders[i])
          /\ results[i].status = "failed" =>
                results[i].error = ExpectedError(Subfolders[i])
    /\ pc = "done" =>
          /\ batch_out = Return(results)
          /\ Len(results) = Len(Subfolders)
          /\ Len(calls) = Len(Subfolders)

\* a failed item, then a successful one, then one that fails again
C2_Witness ==
    /\ pc = "done"
    /\ Len(results) = 3
    /\ results[1].status = "failed"
    /\ results[2].status = "success"
    /\ results[3].status = "failed"
    /\ Len(base_folder.entries) = 3

\* C3: process_batch never raises to its caller, for any base folder,
\* including one that is missing or cannot be listed.
C3_BatchNeverRaises ==
    /\ pc # "raised"
    /\ ~batch_out.raised

\* C4: an exception raised while extract_product_attributes prepares or runs
\* the stages of an item ends the item with status failed and the message of
\* the exception as error; the later stages are skipped, nothing is parsed
\* and no exception reaches the caller.
C4_ExceptionGivesFailedProfile ==
    /\ ~item_out.raised
    /\ \A i \in Finished :
          Raises(Subfolders[i]) =>
              /\ results[i] = [product_name |-> Subfolders[i].name,
                               error |-> RaisedMessage(Subfolders[i]),
                               status |-> "failed"]
              /\ calls[i].parses = 0
              /\ calls[i].stages =
                    IF Subfolders[i].listable /\ Subfolders[i].readable
                    THEN Subfolders[i].fail_stage ELSE 0

\* the first stage raises a timeout: the second stage is never run
C4_Witness ==
    /\ pc = "done"
    /\ Len(results) = 2
    /\ results[1].status = "failed"
    /\ results[1].error = "timeout"
    /\ calls[1] = [reads |-> 1, stages |-> 1, parses |-> 0]
    /\ results[2].status = "failed"
    /\ results[2].error = "503 backend error"
    /\ calls[2] = [reads |-> 1, stages |-> 2, parses |-> 0]

\* C5: a folder without a file of an allowed image extension ends the item
\* with status failed and the error No images found in <folder path>, and
\* no collaborator is called for the item.
C5_NoImagesFailsBeforeAnyCall ==
    \A i \in Finished :
        (Subfolders[i].listable /\ HasNoImage(Subfolders[i])) =>
            /\ results[i].status = "failed"
            /\ results[i].error =
                  "No images found in " \o FolderOf(Subfolders[i])
            /\ calls[i] = NoCalls

\* a folder that holds a text file only
C5_Witness ==
    /\ pc = "done"
    /\ Len(results) = 1
    /\ Subfolders[1].files = TextOnly
    /\ results[1].error = "No images found in products/Cam1"
    /\ calls[1] = NoCalls

(***************************************************************************)
(* Properties of the profiles the batch returns.                           *)
(***************************************************************************)
\* C11: every profile returned for an item, whatever its status, has exactly
\* one attribute entry per catalog name.
C11_EveryProfileNamesTheCatalog ==
    \A i \in Finished :
        /\ "attributes" \in DOMAIN results[i]
        /\ DictKeys(results[i].attributes) = ATTRIBUTES

\* the candidate records the stages of an item supplied for an attribute, in
\* stage order
StageCandidate(answer, name) ==
    LET decoded == JsonLoads(StageText(answer))
    IN  IF /\ StageText(answer) # <<>>
           /\ decoded.ok
           /\ IsDict(decoded.value)
           /\ HasKey(decoded.value, "attributes")
           /\ IsDict(decoded.value.m["attributes"])
           /\ HasKey(decoded.value.m["attributes"], name)
           /\ IsDict(decoded.value.m["attributes"].m[name])
        THEN <<decoded.value.m["attributes"].m[name].m>>
        ELSE <<>>

RECURSIVE Candidates(_, _)
Candidates(answers, name) ==
    IF answers = <<>> THEN <<>>
    ELSE StageCandidate(Head(answers), name) \o Candidates(Tail(answers), name)

\* the precedence of the source tiers and of the confidence levels
TierRank(source) ==
    CASE source = JStr("external-search") -> 4
      [] source = JStr("visual") -> 3
      [] source = JStr("inferred") -> 2
      [] source = JStr("default") -> 1
      [] OTHER -> 0
ConfidenceRank(confidence) ==
    CASE confidence = JStr("high") -> 3
      [] confidence = JStr("medium") -> 2
      [] OTHER -> 1

\* c comes before d in the precedence order
Beats(c, d) ==
    \/ TierRank(c.source) > TierRank(d.source)
    \/ /\ TierRank(c.source) = TierRank(d.source)
       /\ ConfidenceRank(c.confidence) > ConfidenceRank(d.confidence)

\* the first candidate that no other candidate beats
Winner(cands) ==
    cands[SetMin({i \in 1..Len(cands) :
                    \A j \in 1..Len(cands) : ~Beats(cands[j], cands[i])})]

\* C12: for every catalog attribute, the value of the final profile is the
\* candidate of the highest source tier (external-search, visual, inferred,
\* default), then of the higher confidence, then the first in stage order.
C12_HighestTierCandidateWins ==
    \A i \in Finished :
        results[i].status = "success" =>
            \A n \in 1..Len(ATTRIBUTES) :
                LET cands == Candidates(Subfolders[i].answers, ATTRIBUTES[n])
                IN  cands # <<>> =>
                        ValueOf(results[i].attributes, ATTRIBUTES[n])
                            = Winner(cands).value

\* the default values the enrichment agent is told to use instead of null
MANDATORY_DEFAULTS ==
    "Color" :> "Black"
    @@ "Body Material" :> "Magnesium Alloy / Polycarbonate"
    @@ "Dimensions" :> "Not Specified"
    @@ "Weight" :> "Not Specified"
    @@ "Sensor Type" :> "CMOS Sensor"
    @@ "Display Type" :> "LCD Touchscreen"
    @@ "Viewfinder Type" :> "Electronic Viewfinder (EVF)"
    @@ "Battery Type" :> "Rechargeable Li-ion Battery"
    @@ "Memory Card Slot" :> "SD / SDHC / SDXC"
    @@ "USB Port Type" :> "USB Type-C"
    @@ "Hot Shoe Mount" :> "Yes"
    @@ "Tripod Socket" :> "1/4-inch standard thread"
    @@ "Low Pass Filter" :> "Built-in"
    @@ "Auto White Balance" :> "Yes"
    @@ "AE Lock Button" :> "Yes"
    @@ "Shutter Release Type" :> "Electronic & Mechanical"
    @@ "Lens Mount" :> "Interchangeable Mount"
    @@ "Connectivity Features" :> "Wi-Fi, Bluetooth"
    @@ "Video Capabilities" :> "Full HD / 4K Video"
    @@ "Autofocus System" :> "Phase Detection AF"

\* C13: in every finished profile, an attribute for which a default is
\* configured is never null: when no stage supplied a value for it, the
\* default value fills the slot.
C13_DefaultFillsTheSlot ==
    \A i \in Finished :
        results[i].status = "success" =>
            \A n \in 1..Len(ATTRIBUTES) :
                ATTRIBUTES[n] \in DOMAIN MANDATORY_DEFAULTS =>
                    LET value == ValueOf(results[i].attributes, ATTRIBUTES[n])
                        cands == Candidates(Subfolders[i].answers,
                                            ATTRIBUTES[n])
                    IN  /\ value # JNull
                        /\ cands = <<>> =>
                              value = JStr(MANDATORY_DEFAULTS[ATTRIBUTES[n]])

(***************************************************************************)
(* Properties of the summary report and of the exports.                    *)
(***************************************************************************)
\* the profiles of rs with status success
Succeeded(rs) == {i \in 1..Len(rs) : rs[i].status = "success"}
\* the profiles of rs with status failed
FailedItems(rs) == {i \in 1..Len(rs) : rs[i].status = "failed"}

\* C15: in the summary report, for every attribute, total is the number of
\* successful profiles and filled the number of successful profiles whose
\* value for the attribute is not null; failed profiles add to no count.
C15_CompletionCountsNonNull ==
    report.done =>
        \A k \in 1..Len(report.value.attribute_completion_rates) :
            LET rate == report.value.attribute_completion_rates[k]
            IN  /\ rate.value.total = Cardinality(Succeeded(profiles))
                /\ rate.value.filled =
                      Cardinality({i \in Succeeded(profiles) :
                          ValueOf(profiles[i].attributes, rate.key) # JNull})

\* the entries of the failed list of the report that name the i-th profile
FailedEntriesOf(i) ==
    {k \in 1..Len(report.value.failed_products) :
        report.value.failed_products[k].product_name
            = profiles[i].product_name}

\* C16: for every results list, total_products = successful + failed, every
\* result is counted once, and failed_products lists each failed item once
\* with its name and error; an item that failed for lack of images is
\* counted in failed and in total.
C16_ReportCountsEveryResultOnce ==
    report.done =>
        /\ report.value.total_products = Len(profiles)
        /\ report.value.total_products
              = report.value.successful + report.value.failed
        /\ report.value.successful = Cardinality(Succeeded(profiles))
        /\ report.value.failed >= Cardinality(FailedItems(profiles))
        /\ Len(report.value.failed_products) = report.value.failed
        /\ \A i \in FailedItems(profiles) :
              /\ Cardinality(FailedEntriesOf(i)) = 1
              /\ \A k \in FailedEntriesOf(i) :
                    report.value.failed_products[k].error = profiles[i].error

\* an item without images, a successful one and one whose text did not decode
C16_Witness ==
    /\ report.done
    /\ Len(profiles) = 3
    /\ profiles[1].status = "failed"
    /\ profiles[1].error = "No images found in products/Cam1"
    /\ profiles[2].status = "success"
    /\ profiles[3].status = "partial"
    /\ report.value.total_products = 3
    /\ report.value.failed = 2
    /\ report.value.failed_products[1] =
          [product_name |-> "Cam1",
           error |-> "No images found in products/Cam1"]

\* the header row of the CSV file
Headers == csv_file.value.rows[1]
\* the column of the header that holds the name, 0 when there is none
ColumnOf(name) ==
    IF \E k \in 1..Len(Headers) : Headers[k] = name
    THEN CHOOSE k \in 1..Len(Headers) : Headers[k] = name
    ELSE 0

CellText(v) ==
    CASE v.t = "null" -> ""
      [] v.t = "str" -> v.v
      [] v.t = "num" -> ToString(v.v)

\* C19: every CSV data row has as many cells as the header, its attribute
\* cells stand under the header columns of their names, which are in sorted
\* order, and an attribute that is null or absent in the profile is written
\* as the empty string.
C19_RowsFollowTheHeader ==
    (csv_file.done /\ profiles # <<>>) =>
        /\ Len(csv_file.value.rows) = Len(profiles) + 1
        /\ \A k \in 5..(Len(Headers) - 1) :
              \E m \in 1..Len(NameOrder) :
                  /\ NameOrder[m] = Headers[k]
                  /\ \E n \in (m + 1)..Len(NameOrder) :
                        NameOrder[n] = Headers[k + 1]
        /\ \A i \in 1..Len(profiles) :
              LET row == csv_file.value.rows[i + 1]
                  attrs == AttributesOf(profiles[i])
              IN  /\ Len(row) = Len(Headers)
                  /\ \A k \in 5..Len(Headers) :
                        row[k] = IF DictHas(attrs, Headers[k])
                                 THEN CellText(ValueOf(attrs, Headers[k]))
                                 ELSE ""
                  /\ \A k \in 1..Len(attrs) :
                        /\ ColumnOf(attrs[k].key) >= 5
                        /\ attrs[k].value = JNull =>
                              row[ColumnOf(attrs[k].key)] = ""

\* a failed profile, without attributes, and a successful one with a null
C19_Witness ==
    /\ csv_file.done
    /\ Len(profiles) = 2
    /\ profiles[1].status = "failed"
    /\ profiles[2].status = "success"
    /\ ValueOf(profiles[2].attributes, "Color") = JStr("Black")
    /\ ValueOf(profiles[2].attributes, "Body Material") = JNull
    /\ Len(Headers) = 4 + Len(ATTRIBUTES)
    /\ Len(csv_file.value.rows[2]) = Len(Headers)
    /\ csv_file.value.rows[2][ColumnOf("Color")] = ""
    /\ csv_file.value.rows[3][ColumnOf("Color")] = "Black"
    /\ csv_file.value.rows[3][ColumnOf("Body Material")] = ""

\* the profiles read back from the JSON file
Decoded == JsonLoad(json_file.value).items

\* an attribute value as the record (value, source, confidence), a part that
\* is absent read as null
AttributeRecord(name, v) ==
    [name |-> name,
     value |-> IF IsDict(v) THEN Get(v, "value", JNull) ELSE v,
     source |-> IF IsDict(v) THEN Get(v, "source", JNull) ELSE JNull,
     confidence |-> IF IsDict(v) THEN Get(v, "confidence", JNull) ELSE JNull]

HasCell(row, cell) == \E k \in 1..Len(row) : row[k] = cell

\* C17: every failed item of a batch appears as its own entry in the
\* exported JSON and as its own row in the exported CSV, with status failed
\* and its error message, and appears in the failed list of the report.
C17_FailedItemsAppearEverywhere ==
    \A i \in FailedItems(profiles) :
        /\ json_file.done =>
              /\ Decoded[i].m["product_name"] = JStr(profiles[i].product_name)
              /\ Decoded[i].m["status"] = JStr("failed")
              /\ Decoded[i].m["error"] = JStr(profiles[i].error)
        /\ report.done =>
              \E k \in 1..Len(report.value.failed_products) :
                  report.value.failed_products[k]
                    = [product_name |-> profiles[i].product_name,
                       error |-> profiles[i].error]
        /\ csv_file.done =>
              LET row == csv_file.value.rows[i + 1]
              IN  /\ row[1] = profiles[i].product_name
                  /\ HasCell(row, "Failed")
                  /\ HasCell(row, profiles[i].error)
        /\ app_csv.done =>
              \E n \in 2..Len(app_csv.value) :
                  /\ app_csv.value[n][1] = profiles[i].product_name
                  /\ HasCell(app_csv.value[n], profiles[i].error)

(***************************************************************************)
(* The status of a profile.                                                *)
(***************************************************************************)
\* the final text of the item, as _parse_agent_output decodes it, is a JSON
\* object
DecodesToObject(e) ==
    LET raw_text == FinalText(e.answers)
        decoded == JsonLoads(StripCodeBlock(raw_text))
    IN  /\ raw_text # <<>>
        /\ decoded.ok
        /\ IsDict(decoded.value)

\* C27: a profile returned by extract_product_attributes has status success
\* exactly when the final text decoded to a JSON object, whatever number of
\* catalog attributes that object fills; status partial exactly when a
\* response did not decode to an object; status failed exactly when no
\* images were found or an exception was raised.
C27_StatusFollowsTheDecoding ==
    \A i \in Finished :
        LET e == Subfolders[i]
            fails == HasNoImage(e) \/ Raises(e)
        IN  /\ results[i].status = "failed" <=> fails
            /\ results[i].status = "success" <=>
                  (~fails /\ DecodesToObject(e))
            /\ results[i].status = "partial" <=>
                  (~fails /\ ~DecodesToObject(e))

\* the final text decodes to a JSON object whose attributes member, when it
\* has one, is an object too: the payload _format_result accepts
DecodesToPayload(e) ==
    /\ DecodesToObject(e)
    /\ IsDict(Get(JsonLoads(StripCodeBlock(FinalText(e.answers))).value,
                  "attributes", JObj(EmptyMap)))

\* C27 as amended: status success exactly when the final text decoded to a
\* JSON object whose attributes member is absent or an object; status partial
\* exactly when images were found, nothing was raised and the final text did
\* not decode to such an object; status failed exactly when no images were
\* found or an exception was raised.
C27_StatusFollowsThePayload ==
    \A i \in Finished :
        LET e == Subfolders[i]
            fails == HasNoImage(e) \/ Raises(e)
        IN  /\ results[i].status = "failed" <=> fails
            /\ results[i].status = "success" <=>
                  (~fails /\ DecodesToPayload(e))
            /\ results[i].status = "partial" <=>
                  (~fails /\ ~DecodesToPayload(e))

\* an object that fills no attribute, an object whose attributes member is a
\* number, and a folder without images
C27_Witness ==
    /\ pc = "done"
    /\ Len(results) = 3
    /\ FinalText(Subfolders[1].answers) = DocEmptyText
    /\ results[1].status = "success"
    /\ results[1].filled_attributes = 0
    /\ FinalText(Subfolders[2].answers) = DocBadAttrsText
    /\ results[2].status = "partial"
    /\ HasNoImage(Subfolders[3])
    /\ results[3].status = "failed"

(***************************************************************************)
(* Properties of an item that is aborted.                                  *)
(***************************************************************************)
\* the stage at which the collaborator call of the item raised, 0 when none
\* did
AbortedAt(e) ==
    IF e.listable /\ ~HasNoImage(e) /\ e.readable THEN e.fail_stage ELSE 0

\* the keys every failed profile holds
FailureKeys == {"product_name", "error", "status"}

\* C25: when an item is aborted at stage i, its failed profile records
\* stage_reached = i and keeps the outputs of the stages that completed
\* before i.
C25_FailedProfileKeepsTheStage ==
    \A i \in Finished :
        AbortedAt(Subfolders[i]) > 0 =>
            /\ results[i].status = "failed"
            /\ "stage_reached" \in DOMAIN results[i]
            /\ results[i].stage_reached = AbortedAt(Subfolders[i])
            /\ AbortedAt(Subfolders[i]) > 1 =>
                  DOMAIN results[i] \ (FailureKeys \cup {"stage_reached"})
                      # {}

(***************************************************************************)
(* The report and the status of the profiles.                              *)
(***************************************************************************)
\* C28: the split of the summary report agrees with the status of the
\* profiles: a profile is counted as failed, and written as Failed in the
\* Status column of the CSV, if and only if its status is failed; a partial
\* profile is not counted as failed.
C28_SplitFollowsTheStatus ==
    /\ report.done =>
          /\ report.value.failed = Cardinality(FailedItems(profiles))
          /\ report.value.successful =
                Len(profiles) - Cardinality(FailedItems(profiles))
          /\ \A k \in 1..Len(report.value.failed_products) :
                \E i \in FailedItems(profiles) :
                    profiles[i].product_name =
                        report.value.failed_products[k].product_name
    /\ (csv_file.done /\ profiles # <<>>) =>
          \A i \in 1..Len(profiles) :
              csv_file.value.rows[i + 1][4] = "Failed"
                  <=> profiles[i].status = "failed"

\* the filled counts of the attribute completion rates of a report, summed
ReportFilled(rep) ==
    Sum([k \in 1..Len(rep.attribute_completion_rates) |->
            rep.attribute_completion_rates[k].value.filled])

\* the attributes of a profile that are neither null nor the string null
NonNull(prod) ==
    {k \in 1..Len(prod.attributes) :
        prod.attributes[k].value \notin {JNull, JStr("null")}}

\* C29: for every success profile, total_attributes is the catalog size,
\* 0 <= filled_attributes <= total_attributes, and filled_attributes is the
\* number of catalog attributes whose value is neither null nor the string
\* null; the summary report adds the same count of filled attributes for the
\* profile.
C29_FilledCountsAgree ==
    /\ \A i \in Succeeded(profiles) :
          /\ profiles[i].total_attributes = Len(ATTRIBUTES)
          /\ profiles[i].filled_attributes \in 0..profiles[i].total_attributes
          /\ profiles[i].filled_attributes = Cardinality(NonNull(profiles[i]))
    /\ report.done =>
          ReportFilled(report.value) =
              Sum([i \in 1..Len(profiles) |->
                      IF i \in Succeeded(profiles)
                      THEN profiles[i].filled_attributes ELSE 0])

(***************************************************************************)
(* Properties of the pipeline of src/code and of process_and_export.       *)
(***************************************************************************)
\* the calls of run_extraction_pipeline that returned status failed
ReturnedFailed ==
    {i \in 1..Len(results) :
        "status" \in DOMAIN results[i] /\ results[i].status = "failed"}

\* C30: after any sequence of run_extraction_pipeline calls on one pipeline,
\* get_pipeline_report gives total_products_processed equal to the number of
\* calls made, successful_extractions + failed_extractions equal to
\* total_products_processed, and failed_extractions equal to the number of
\* calls that returned status failed.
C30_ReportCountsEveryCall ==
    pipeline_report.done =>
        LET r == pipeline_report.value
        IN  /\ r.total_products_processed = Len(results)
            /\ r.successful_extractions + r.failed_extractions
                  = r.total_products_processed
            /\ r.failed_extractions = Cardinality(ReturnedFailed)

\* the search the second agent asked for while the item ran failed: the
\* credentials are missing, or the request ended in a network error, an HTTP
\* error or a timeout
SearchFailed(e) ==
    /\ FindProductImages(FolderOf(e), e.files) # <<>>
    /\ e.readable
    /\ e.fail_stage \notin {1, 2}
    /\ e.search # NoSearch
    /\ (~e.credentials \/ e.search.kind # "ok")

\* C21: a failure of the web-search collaborator during an item (network
\* error, HTTP error, timeout, missing credentials) is fatal to that item:
\* the item ends with status failed and the error message.
C21_SearchFailureFailsTheItem ==
    \A i \in Finished :
        SearchFailed(Subfolders[i]) =>
            /\ "status" \in DOMAIN results[i]
            /\ results[i].status = "failed"
            /\ "error" \in DOMAIN results[i]

\* the stages of the item in hand whose slot the session holds
SlotsWritten == {t \in 1..MainStages : DictHas(session, output_key(t))}
\* a sub-agent of the item in hand has just run
StageStep == pc = "m_run" /\ pc' = "m_run"

Aggregating == pc \in {"pe_json", "pe_csv", "pe_report", "pe_done"}

\* C24: in process_and_export the summary report and the JSON and CSV
\* exports are computed only after every item of the batch has a result: they
\* are absent before, they are functions of the complete list of results,
\* and no item is processed once the aggregation has started.
C24_AggregationAfterTheBatch ==
    /\ [](/\ ~Aggregating => ~report.done /\ ~json_file.done /\ ~csv_file.done
          /\ Aggregating =>
                /\ Len(results) = Len(product_folders)
                /\ product_folders = Subfolders
                /\ profiles = results
                /\ json_file.done => json_file.value = JsonDump(results)
                /\ csv_file.done => csv_file.value = CsvExport(results)
                /\ report.done => report.value = GenerateReport(results))
    /\ [][Aggregating =>
            /\ results' = results
            /\ enrichment_history' = enrichment_history
            /\ idx' = idx]_vars

\* a batch of three items has been exported and reported
C24_Witness ==
    /\ pc = "pe_done"
    /\ Len(results) = 3
    /\ json_file.done /\ csv_file.done /\ report.done
    /\ report.value = GenerateReport(results)

(***************************************************************************)
(* Properties of the sessions of the runs.                                 *)
(***************************************************************************)
\* C23: two distinct items processed by one pipeline, and two runs of the
\* same item, never use the same session, also when the product names
\* differ in non-alphanumeric characters only or the runs start within the
\* same millisecond.
C23_RunsNeverShareASession ==
    \A i, j \in 1..Len(runs) : i # j => runs[i].session # runs[j].session

====
